---- MODULE Spec2Model ----
(***************************************************************************)
(* A model of the LilyPond-to-MIDI converter (src/lilypond_converter.py):  *)
(* pitch arithmetic, the event-collecting traversal of the music tree,     *)
(* music-root and tempo extraction, timeline assembly and message          *)
(* emission, and saving the result to a path; its relative-pitch pre-pass  *)
(* and repeated calls; and of the ABC player (src/rappa.py): parse_note,   *)
(* _parse_duration, frequency_to_midi_note, save_to_midi, play, and what   *)
(* main does around the calls it makes.                                    *)
(*                                                                         *)
(* The music document is the tree ly.music.document() returns (line 181):  *)
(* every node is a record with the same fields, `kind` being its class.    *)
(* Fractions are pairs <<numerator, denominator>> kept in lowest terms     *)
(* with a positive denominator, as fractions.Fraction keeps them.          *)
(***************************************************************************)
EXTENDS Integers, Sequences, FiniteSets, TLC

VARIABLES
    doc,             \* music_document, the parsed tree (line 181)
    tempo_fallback,  \* parameter tempo_fallback
    ticks_per_beat,  \* parameter ticks_per_beat
    output_path,     \* parameter output_path of convert_lilypond_to_midi_path
    pc,              \* position in convert_lilypond_to_midi_path
    music_node,      \* result of _find_music_node (NoNode for None)
    track,           \* mid.tracks[0], the messages appended so far
    events,          \* collector.events
    in_drum_mode,    \* collector._in_drum_mode
    visits,          \* one entry per call of traverse (observation only)
    warned,          \* drum names passed to warnings.warn, in order
    timeline,        \* the list `timeline`
    raised,          \* exception leaving the call, "none" when none
    files,           \* paths existing on disk
    returned,        \* value returned by convert_lilypond_to_midi_path
    pitch_in,        \* arguments of the pitch_to_midi calls under study
    pitch_out,       \* their results
    prepass,         \* outcome of ly.pitch.rel2abs.rel2abs (lines 175-179)
    runs,            \* the calls of lilypond_to_midifile that have ended
    parked,          \* the locals of the call of a thread that is switched out, if any
    note_str,        \* argument of ABCPlayer.parse_note
    parsed,          \* its result
    notes,           \* abc_notation.split() in save_to_midi
    tempo_bpm,       \* parameter tempo of save_to_midi
    note_index,      \* position of the loop over notes
    caller,          \* function of rappa.py the call was made from, "none" when direct
    save_midi,       \* save_midi of play, save_midi_path of main (NoPath for None)
    temp_path        \* local temp_path of play, "none" before the file is made

vars == << doc, tempo_fallback, ticks_per_beat, output_path, pc, music_node,
           track, events, in_drum_mode, visits, warned, timeline, raised,
           files, returned, pitch_in, pitch_out, prepass, runs, parked,
           note_str, parsed, notes, tempo_bpm, note_index,
           caller, save_midi, temp_path >>

\* The variables of repeated and concurrent calls, and those of rappa.py.
call_vars == << prepass, runs, parked >>
play_vars == << caller, save_midi, temp_path >>
abc_vars == << note_str, parsed, notes, tempo_bpm, note_index, play_vars >>

(***************************************************************************)
(* Bounds of the model.                                                    *)
(***************************************************************************)
MaxLen == 2          \* longest list of children of a generated music block
MaxOctave == 7       \* pitch octaves range over -MaxOctave .. MaxOctave
MaxCalls == 3        \* calls of lilypond_to_midifile in one behaviour

(***************************************************************************)
(* Module constants of lilypond_converter.py.                              *)
(***************************************************************************)
NOTE_OFFSETS == << 0, 2, 4, 5, 7, 9, 11 >>
SEMITONES_PER_OCTAVE == 12
MIDI_C4_OCTAVE_OFFSET == 4
QUARTER_STEPS_PER_SEMITONE == 2
OFF_PRIORITY == 0
ON_PRIORITY == 1
EVENT_OFF == "off"
EVENT_ON == "on"
DRUM_CHANNEL == 9
NoNote == -1         \* None as the note of a TimedEvent / a lookup result

DRUM_NAMES == { "bd", "sn", "hh", "hhc", "hho", "cymc", "toml", "tomm", "tomh" }

DRUM_NAME_TO_MIDI_GM(name) ==
    CASE name = "bd"   -> 36
      [] name = "sn"   -> 38
      [] name = "hh"   -> 42
      [] name = "hhc"  -> 42
      [] name = "hho"  -> 46
      [] name = "cymc" -> 49
      [] name = "toml" -> 45
      [] name = "tomm" -> 47
      [] name = "tomh" -> 50
      [] OTHER         -> NoNote

DRUM_NAME_TO_MIDI(name) ==
    CASE name = "bd"   -> 36
      [] name = "sn"   -> 38
      [] name = "hh"   -> 42
      [] name = "hhc"  -> 42
      [] name = "hho"  -> 46
      [] name = "cymc" -> 49
      [] name = "toml" -> 45
      [] name = "tomm" -> 48
      [] name = "tomh" -> 50
      [] OTHER         -> NoNote

(***************************************************************************)
(* fractions.Fraction and Python's round().                                *)
(***************************************************************************)
Abs(x) == IF x < 0 THEN -x ELSE x
Max(a, b) == IF a >= b THEN a ELSE b
Min(a, b) == IF a <= b THEN a ELSE b

RECURSIVE Gcd(_, _)
Gcd(a, b) == IF b = 0 THEN a ELSE Gcd(b, a % b)

\* Fraction(n, d) for d > 0, in lowest terms.
Frac(n, d) ==
    LET g == Gcd(Abs(n), d) IN << n \div g, d \div g >>

FMul(a, b) == Frac(a[1] * b[1], a[2] * b[2])
FAdd(a, b) == Frac(a[1] * b[2] + b[1] * a[2], a[2] * b[2])
FInt(k) == << k, 1 >>
FLess(a, b) == a[1] * b[2] < b[1] * a[2]
FMax(a, b) == IF FLess(a, b) THEN b ELSE a

\* round(Fraction(n, d)): nearest integer, a tie going to the even one.
Round(f) ==
    LET n == f[1]
        d == f[2]
        q == n \div d
        r == n % d
    IN  IF 2 * r < d THEN q
        ELSE IF 2 * r > d THEN q + 1
        ELSE IF q % 2 = 0 THEN q ELSE q + 1

(***************************************************************************)
(* pitch_to_midi.  A pitch is [note, octave, alter]: note the letter class *)
(* 0..6, alter a Fraction of a whole tone (a sharp is 1/2).                *)
(***************************************************************************)
Pitch(note, octave, alter) == [note |-> note, octave |-> octave, alter |-> alter]

pitch_to_midi_unclamped(pitch) ==
    LET semitone_from_alter == Round(FMul(pitch.alter, FInt(QUARTER_STEPS_PER_SEMITONE)))
        base == SEMITONES_PER_OCTAVE * (pitch.octave + MIDI_C4_OCTAVE_OFFSET)
    IN  base + NOTE_OFFSETS[pitch.note + 1] + semitone_from_alter

pitch_to_midi_offset5(pitch) ==
    LET semitone_from_alter == Round(FMul(pitch.alter, FInt(QUARTER_STEPS_PER_SEMITONE)))
        base == SEMITONES_PER_OCTAVE * (pitch.octave + MIDI_C4_OCTAVE_OFFSET + 1)
        note_number == base + NOTE_OFFSETS[pitch.note + 1] + semitone_from_alter
    IN  Max(0, Min(127, note_number))

pitch_to_midi(pitch) ==
    LET semitone_from_alter == Round(FMul(pitch.alter, FInt(QUARTER_STEPS_PER_SEMITONE)))
        base == SEMITONES_PER_OCTAVE * (pitch.octave + MIDI_C4_OCTAVE_OFFSET)
        note_number == base + NOTE_OFFSETS[pitch.note + 1] + semitone_from_alter
    IN  Max(0, Min(127, note_number))

(***************************************************************************)
(* Nodes of the music tree (ly.music.items).  `duration` is the pair       *)
(* (base, scaling) of a Durable or of a Tempo, `scaling` the factor of a   *)
(* Scaler, `simultaneous` the flag of a MusicList, `token` the drum name   *)
(* of a DrumNote, `values` what Tempo.tempo() returns.                     *)
(***************************************************************************)
NoPitch == Pitch(0, 0, << 0, 1 >>)
NoDuration == << << 0, 1 >>, << 1, 1 >> >>

Item(kind) ==
    [ kind |-> kind, kids |-> << >>, simultaneous |-> FALSE,
      duration |-> NoDuration, scaling |-> << 1, 1 >>, pitch |-> NoPitch,
      has_pitch |-> FALSE, token |-> "", values |-> << >> ]

NoNode == Item("None")

Note(pitch, duration) ==
    [ Item("Note") EXCEPT !.pitch = pitch, !.has_pitch = TRUE, !.duration = duration ]
Durable(kind, duration) == [ Item(kind) EXCEPT !.duration = duration ]
DrumNote(token, duration) == [ Item("DrumNote") EXCEPT !.token = token, !.duration = duration ]
Chord(kids, duration) == [ Item("Chord") EXCEPT !.kids = kids, !.duration = duration ]
MusicList(kids, simultaneous) ==
    [ Item("MusicList") EXCEPT !.kids = kids, !.simultaneous = simultaneous ]
Container(kind, kids) == [ Item(kind) EXCEPT !.kids = kids ]
Scaler(scaling, kids) == [ Item("Scaler") EXCEPT !.scaling = scaling, !.kids = kids ]
Tempo(unit, values) ==
    [ Item("Tempo") EXCEPT !.duration = << unit, << 1, 1 >> >>, !.values = values ]

\* isinstance(node, items.Music): the classes of the model deriving from Music.
IsMusic(node) == node.kind \in { "MusicList", "Context", "DrumMode", "Scaler", "Relative" }
\* isinstance(node, items.Durable).
IsDurable(node) ==
    node.kind \in { "Note", "Rest", "Skip", "Q", "DrumNote", "Unpitched", "Chord" }
\* isinstance(node, (Note, Rest, Skip, Q, DrumNote, Unpitched)), line 128.
IsPlayable(node) ==
    node.kind \in { "Note", "Rest", "Skip", "Q", "DrumNote", "Unpitched" }

(***************************************************************************)
(* The collector.                                                          *)
(***************************************************************************)
_tick_scale(tpb) == tpb * 4

TimedEvent(start, duration, note, channel) ==
    [ start |-> start, duration |-> duration, note |-> note, channel |-> channel ]

\* The collector's state while traversing: events, _in_drum_mode, the names
\* warned about, and the log of visits.
Collector(evs, flag, warns, log) ==
    [ events |-> evs, in_drum_mode |-> flag, warned |-> warns, visits |-> log ]

\* _drum_name_to_midi: the table value, or None together with a warning.
_drum_name_to_midi_default(drum_name) ==
    IF drum_name \in DRUM_NAMES THEN DRUM_NAME_TO_MIDI(drum_name) ELSE 0

_drum_name_to_midi(drum_name) ==
    IF drum_name \in DRUM_NAMES THEN DRUM_NAME_TO_MIDI(drum_name) ELSE NoNote

_drum_warning(drum_name) ==
    IF _drum_name_to_midi(drum_name) = NoNote THEN << drum_name >> ELSE << >>

\* Lines 98-100 and 114-116: start and duration in ticks.
start_ticks(time, tpb) == Round(FMul(time, FInt(_tick_scale(tpb))))

duration_ticks_unfloored(node, scaling, tpb) ==
    LET duration_fraction == FMul(FMul(node.duration[1], node.duration[2]), scaling)
    IN  Round(FMul(duration_fraction, FInt(_tick_scale(tpb))))

duration_ticks(node, scaling, tpb) ==
    LET duration_fraction == FMul(FMul(node.duration[1], node.duration[2]), scaling)
    IN  Max(1, Round(FMul(duration_fraction, FInt(_tick_scale(tpb)))))

\* Lines 102-112: the events of the DrumNote children of a drum chord.
RECURSIVE ChordEvents(_, _, _, _)
ChordEvents(kids, i, start, dur) ==
    IF i > Len(kids) THEN << >>
    ELSE LET child == kids[i]
             midi_note == _drum_name_to_midi(child.token)
             here == IF child.kind = "DrumNote" /\ midi_note # NoNote
                     THEN << TimedEvent(start, dur, midi_note, DRUM_CHANNEL) >>
                     ELSE << >>
         IN  here \o ChordEvents(kids, i + 1, start, dur)

RECURSIVE ChordWarnings(_, _)
ChordWarnings(kids, i) ==
    IF i > Len(kids) THEN << >>
    ELSE (IF kids[i].kind = "DrumNote" THEN _drum_warning(kids[i].token) ELSE << >>)
         \o ChordWarnings(kids, i + 1)

HandleWithoutChords(node, time, scaling, tpb, flag, c) ==
    IF IsPlayable(node)
    THEN LET midi_note ==
                 IF node.kind = "DrumNote" THEN _drum_name_to_midi(node.token)
                 ELSE IF node.kind = "Note" /\ node.has_pitch THEN pitch_to_midi(node.pitch)
                 ELSE NoNote
             channel == IF node.kind = "DrumNote" THEN DRUM_CHANNEL ELSE 0
         IN  [ c EXCEPT
                 !.events = Append(@, TimedEvent(start_ticks(time, tpb),
                                                 duration_ticks(node, scaling, tpb),
                                                 midi_note, channel)),
                 !.warned = IF node.kind = "DrumNote"
                            THEN @ \o _drum_warning(node.token) ELSE @ ]
    ELSE c

\* Lines 96-136: what visiting `node` appends to events and warnings,
\* `flag` being _in_drum_mode after lines 90-92.
Handle(node, time, scaling, tpb, flag, c) ==
    IF node.kind = "Chord" /\ flag
    THEN [ c EXCEPT
             !.events = @ \o ChordEvents(node.kids, 1, start_ticks(time, tpb),
                                         duration_ticks(node, scaling, tpb)),
             !.warned = @ \o ChordWarnings(node.kids, 1) ]
    ELSE IF IsDurable(node)
    THEN LET midi_note ==
                 IF node.kind = "DrumNote" THEN _drum_name_to_midi(node.token)
                 ELSE IF node.kind = "Note" /\ node.has_pitch THEN pitch_to_midi(node.pitch)
                 ELSE NoNote
             channel == IF node.kind = "DrumNote" THEN DRUM_CHANNEL ELSE 0
         IN  [ c EXCEPT
                 !.events = IF IsPlayable(node)
                            THEN Append(@, TimedEvent(start_ticks(time, tpb),
                                                      duration_ticks(node, scaling, tpb),
                                                      midi_note, channel))
                            ELSE @,
                 !.warned = IF node.kind = "DrumNote"
                            THEN @ \o _drum_warning(node.token) ELSE @ ]
    ELSE c

\* Lines 140-142: _in_drum_mode after the visit of a node of class `kind`.
RestoreKeep(kind, was_in_drum_mode, now) == now

Restore(kind, was_in_drum_mode, now) ==
    IF kind = "DrumMode" THEN was_in_drum_mode ELSE now

(***************************************************************************)
(* LilypondEventCollector.traverse (lines 88-144), with Item.events of the *)
(* node's class standing for super().traverse(node, time, scaling):        *)
(*   Durable (a Chord included): time + duration[0]*duration[1]*scaling;   *)
(*   Music: the children in turn, each starting where the last one ended;  *)
(*   simultaneous MusicList: every child from `time`, the latest end;      *)
(*   Scaler: as Music, with scaling * node.scaling;                        *)
(*   any other Item: time.                                                 *)
(* `inside` tells whether the node lies in the subtree of a DrumMode: it   *)
(* is handed down the recursion and only recorded in the log.              *)
(* The result is [time, c]: the returned time and the collector.           *)
(***************************************************************************)
RECURSIVE traverse(_, _, _, _, _, _)
RECURSIVE TraverseKids(_, _, _, _, _, _, _, _)

TraverseKids(kids, i, sim, time, scaling, tpb, inside, r) ==
    \* r.time is the time accumulated so far (the running maximum when
    \* simultaneous), r.c the collector after the children before i
    IF i > Len(kids) THEN r
    ELSE LET one == traverse(kids[i], IF sim THEN time ELSE r.time,
                             scaling, tpb, inside, r.c)
             t == IF sim /\ i > 1 THEN FMax(r.time, one.time) ELSE one.time
         IN  TraverseKids(kids, i + 1, sim, time, scaling, tpb, inside,
                          [ time |-> t, c |-> one.c ])

traverse(node, time, scaling, tpb, inside, c0) ==
    LET was_in_drum_mode == c0.in_drum_mode
        flag == IF node.kind = "DrumMode" THEN TRUE ELSE c0.in_drum_mode
        within == inside \/ node.kind = "DrumMode"
        entered == [ c0 EXCEPT !.in_drum_mode = flag,
                       !.visits = Append(@, [ at |-> "enter", kind |-> node.kind,
                                              flag |-> flag, inside |-> within,
                                              was |-> was_in_drum_mode ]) ]
        c1 == Handle(node, time, scaling, tpb, flag, entered)
        result ==
            IF IsDurable(node)
            THEN [ time |-> FAdd(time, FMul(FMul(node.duration[1], node.duration[2]), scaling)),
                   c |-> c1 ]
            ELSE IF IsMusic(node)
            THEN TraverseKids(node.kids, 1,
                              node.kind = "MusicList" /\ node.simultaneous,
                              time, FMul(scaling, node.scaling), tpb, within,
                              [ time |-> time, c |-> c1 ])
            ELSE [ time |-> time, c |-> c1 ]
        after == Restore(node.kind, was_in_drum_mode, result.c.in_drum_mode)
    IN  [ time |-> result.time,
          c |-> [ result.c EXCEPT !.in_drum_mode = after,
                    !.visits = Append(@, [ at |-> "leave", kind |-> node.kind,
                                           flag |-> after, inside |-> within,
                                           was |-> was_in_drum_mode ]) ] ]

\* Events.read(node) on a collector that outlives the call: the events and
\* the flag of the call before are still in it.
read_shared(node, tpb) ==
    traverse(node, << 0, 1 >>, << 1, 1 >>, tpb, FALSE,
             Collector(events, in_drum_mode, warned, visits)).c

\* Events.read(node): traverse(node, 0, 1) on a fresh collector (lines 193-194).
read(node, tpb) ==
    traverse(node, << 0, 1 >>, << 1, 1 >>, tpb, FALSE,
             Collector(<< >>, FALSE, << >>, << >>)).c

(***************************************************************************)
(* _find_music_node and _extract_tempo.                                    *)
(***************************************************************************)
\* Node.iter_depth(): the descendants of a node in document order (each
\* child followed by its own descendants), the node itself excluded.
RECURSIVE iter_depth(_)
RECURSIVE IterKids(_, _)
IterKids(kids, i) ==
    IF i > Len(kids) THEN << >>
    ELSE << kids[i] >> \o iter_depth(kids[i]) \o IterKids(kids, i + 1)
iter_depth(node) == IterKids(node.kids, 1)

\* Assignment.value(): the last child.
AssignmentValue(node) ==
    IF Len(node.kids) = 0 THEN NoNode ELSE node.kids[Len(node.kids)]

RECURSIVE FindMusicAnyValue(_, _)
FindMusicAnyValue(nodes, i) ==
    IF i > Len(nodes) THEN NoNode
    ELSE IF IsMusic(nodes[i]) THEN nodes[i]
    ELSE IF nodes[i].kind = "Assignment" THEN AssignmentValue(nodes[i])
    ELSE FindMusicAnyValue(nodes, i + 1)

RECURSIVE FindMusicFrom(_, _)
FindMusicFrom(nodes, i) ==
    IF i > Len(nodes) THEN NoNode
    ELSE IF IsMusic(nodes[i]) THEN nodes[i]
    ELSE IF nodes[i].kind = "Assignment" /\ IsMusic(AssignmentValue(nodes[i]))
    THEN AssignmentValue(nodes[i])
    ELSE FindMusicFrom(nodes, i + 1)

_find_music_node(root) == FindMusicFrom(iter_depth(root), 1)

\* Tempo.fraction() or Fraction(1, 4): the beat unit, a quarter when absent.
base_fraction(tempo_node) ==
    IF tempo_node.duration[1][1] = 0 THEN << 1, 4 >> ELSE tempo_node.duration[1]

\* values[0] * (base_fraction / Fraction(1, 4)), line 163.
quarter_bpm(tempo_node) ==
    FMul(FInt(tempo_node.values[1]), FMul(base_fraction(tempo_node), << 4, 1 >>))

RECURSIVE ExtractTempoLast(_, _, _)
ExtractTempoLast(nodes, i, default_bpm) ==
    IF i < 1 THEN FInt(default_bpm)
    ELSE IF nodes[i].kind = "Tempo" /\ Len(nodes[i].values) > 0
    THEN quarter_bpm(nodes[i])
    ELSE ExtractTempoLast(nodes, i - 1, default_bpm)

ExtractTempoFromEnd(nodes, i, default_bpm) ==
    ExtractTempoLast(nodes, Len(nodes), default_bpm)

RECURSIVE ExtractTempoFrom(_, _, _)
ExtractTempoFrom(nodes, i, default_bpm) ==
    IF i > Len(nodes) THEN FInt(default_bpm)
    ELSE IF nodes[i].kind = "Tempo" /\ Len(nodes[i].values) > 0
    THEN quarter_bpm(nodes[i])
    ELSE ExtractTempoFrom(nodes, i + 1, default_bpm)

_extract_tempo(root, default_bpm) == ExtractTempoFrom(iter_depth(root), 1, default_bpm)

\* mido.bpm2tempo: microseconds per quarter note, round(60 * 1e6 / bpm).
bpm2tempo(bpm) == Round(Frac(60000000 * bpm[2], bpm[1]))

(***************************************************************************)
(* Messages of the track.                                                  *)
(***************************************************************************)
Msg(type, note, channel, time, tempo) ==
    [ type |-> type, note |-> note, velocity |-> IF note = NoNote THEN 0 ELSE 64,
      channel |-> channel, time |-> time, tempo |-> tempo ]

TrackName == Msg("track_name", NoNote, 0, 0, 0)
SetTempo(tempo) == Msg("set_tempo", NoNote, 0, 0, tempo)
EndOfTrack == Msg("end_of_track", NoNote, 0, 0, 0)

(***************************************************************************)
(* Timeline assembly (lines 196-204) and message emission (206-215).       *)
(***************************************************************************)
Entry(tick, kind, note, channel) ==
    [ tick |-> tick, kind |-> kind, note |-> note, channel |-> channel ]

\* Lines 198-202 with the OFF entry at the tick of the ON entry.
RECURSIVE ExplodeOffAtStart(_, _)
ExplodeOffAtStart(evs, i) ==
    IF i > Len(evs) THEN << >>
    ELSE (IF evs[i].note = NoNote THEN << >>
          ELSE << Entry(evs[i].start, EVENT_ON, evs[i].note, evs[i].channel),
                  Entry(evs[i].start, EVENT_OFF, evs[i].note, evs[i].channel) >>)
         \o ExplodeOffAtStart(evs, i + 1)

\* Lines 198-202: an ON and an OFF entry per event that has a note.
RECURSIVE Explode(_, _)
Explode(evs, i) ==
    IF i > Len(evs) THEN << >>
    ELSE (IF evs[i].note = NoNote THEN << >>
          ELSE << Entry(evs[i].start, EVENT_ON, evs[i].note, evs[i].channel),
                  Entry(evs[i].start + evs[i].duration, EVENT_OFF,
                        evs[i].note, evs[i].channel) >>)
         \o Explode(evs, i + 1)

\* The second component of the sort key, line 204.
PriorityNone(kind) == ON_PRIORITY

Priority(kind) == IF kind = EVENT_OFF THEN OFF_PRIORITY ELSE ON_PRIORITY

KeyLess(a, b) ==
    \/ a.tick < b.tick
    \/ a.tick = b.tick /\ Priority(a.kind) < Priority(b.kind)

\* list.sort is stable: an entry goes after every entry whose key is not
\* greater than its own.
RECURSIVE InsertSorted(_, _, _)
InsertSorted(sorted, e, i) ==
    IF i > Len(sorted) THEN Append(sorted, e)
    ELSE IF KeyLess(e, sorted[i])
    THEN SubSeq(sorted, 1, i - 1) \o << e >> \o SubSeq(sorted, i, Len(sorted))
    ELSE InsertSorted(sorted, e, i + 1)

RECURSIVE SortFrom(_, _, _)
SortFrom(entries, i, sorted) ==
    IF i > Len(entries) THEN sorted
    ELSE SortFrom(entries, i + 1, InsertSorted(sorted, entries[i], 1))

SortTimeline(entries) == SortFrom(entries, 1, << >>)

\* The emission loop without line 212: last_tick stays 0.
RECURSIVE EmitAbsolute(_, _, _)
EmitAbsolute(entries, i, last_tick) ==
    IF i > Len(entries) THEN << >>
    ELSE LET e == entries[i]
             delta == Max(0, e.tick - last_tick)
         IN  << Msg(IF e.kind = EVENT_ON THEN "note_on" ELSE "note_off",
                    e.note, e.channel, delta, 0) >>
             \o EmitAbsolute(entries, i + 1, last_tick)

\* Lines 206-213: one message per entry, its time the delay since the last.
RECURSIVE Emit(_, _, _)
Emit(entries, i, last_tick) ==
    IF i > Len(entries) THEN << >>
    ELSE LET e == entries[i]
             delta == Max(0, e.tick - last_tick)
         IN  << Msg(IF e.kind = EVENT_ON THEN "note_on" ELSE "note_off",
                    e.note, e.channel, delta, 0) >>
             \o Emit(entries, i + 1, e.tick)

(***************************************************************************)
(* The inputs: pitches, and music documents as the parser builds them.     *)
(***************************************************************************)
RECURSIVE SeqsUpTo(_, _)
SeqsUpTo(S, n) ==
    IF n = 0 THEN { << >> }
    ELSE LET shorter == SeqsUpTo(S, n - 1)
         IN  shorter \cup { Append(q, x) : q \in shorter, x \in S }

Alterations ==
    { << 0, 1 >>, << 1, 2 >>, << -1, 2 >>, << 1, 1 >>, << -1, 1 >>,
      << 1, 4 >>, << -1, 4 >>, << 3, 4 >>, << -3, 4 >> }

Pitches ==
    { Pitch(n, o, a) : n \in 0 .. 6, o \in -MaxOctave .. MaxOctave, a \in Alterations }

\* Pairs of pitches that differ in the octave only or in the letter only.
PitchPairs ==
    { pq \in Pitches \X Pitches :
        /\ pq[1].alter = pq[2].alter
        /\ pq[1].note = pq[2].note \/ pq[1].octave = pq[2].octave }

Quarter == << << 1, 4 >>, << 1, 1 >> >>       \* c4
Eighth == << << 1, 8 >>, << 1, 1 >> >>        \* c8
DottedHalf == << << 3, 4 >>, << 1, 1 >> >>    \* c2.
Short == << << 1, 128 >>, << 1, 1 >> >>       \* c128
Scaled0 == << << 1, 4 >>, << 0, 1 >> >>       \* c4*0
Sixteenth == << << 1, 16 >>, << 1, 1 >> >>    \* c16
Durations == { Quarter, Eighth, DottedHalf, Short, Scaled0 }

MiddleC == Pitch(0, 1, << 0, 1 >>)            \* c'
MiddleD == Pitch(1, 1, << 0, 1 >>)            \* d'
HighFis == Pitch(3, 7, << 1, 2 >>)            \* fis with seven primes
LowBes == Pitch(6, -5, << -1, 2 >>)           \* bes with five commas

MelodicChord == Chord(<< Note(MiddleC, NoDuration), Note(MiddleD, NoDuration) >>, Quarter)

MelodicLeaves ==
    { Note(MiddleC, Quarter), Note(MiddleD, DottedHalf), Note(HighFis, Short),
      Note(LowBes, Scaled0), Durable("Rest", Eighth), MelodicChord }

OtherLeaves ==
    { Note(MiddleC, Eighth), Durable("Skip", Eighth), Durable("Q", Quarter),
      Durable("Unpitched", Eighth) }

FewMelodicLeaves ==
    { Note(MiddleC, Quarter), Note(MiddleD, Eighth), Durable("Rest", Scaled0) }

UnmappedName == "unknowndrum"

\* Every name of the table, and one outside it.
DrumNames == DRUM_NAMES \cup { UnmappedName }

DrumLeaves ==
    { DrumNote("bd", Quarter), DrumNote("tomm", Quarter), DrumNote("hhc", Quarter),
      DrumNote("sn", Eighth), DrumNote(UnmappedName, Quarter) }

DrumChord(names, duration) ==
    Chord([ i \in DOMAIN names |-> DrumNote(names[i], NoDuration) ], duration)

DrumChordLeaves ==
    { DrumChord(<< "bd", "hh" >>, Quarter), DrumChord(<< "sn", "hho" >>, Eighth),
      DrumChord(<< "sn", UnmappedName, "bd" >>, Short), DrumChord(<< UnmappedName >>, Quarter),
      DrumNote(UnmappedName, Eighth) }

\* The leaves of a staff and of a drum staff set side by side.
StaffLeaves == { Note(MiddleC, Quarter), MelodicChord }
DrumStaffLeaves == { DrumNote("bd", Quarter), DrumChord(<< "sn", "hh" >>, Quarter) }

Block(kids) == MusicList(kids, FALSE)
Blocks(leaves) == { Block(kids) : kids \in SeqsUpTo(leaves, MaxLen) }
DrumBlocks(leaves) == { Container("DrumMode", << b >>) : b \in Blocks(leaves) }

Tuplet == << 2, 3 >>        \* \tuplet 3/2
Septuplet == << 4, 7 >>     \* \tuplet 7/4

\* \tuplet 7/4 { c'16 c'16 c'16 }
SeptupletRun ==
    Scaler(Septuplet, << Block(<< Note(MiddleC, Sixteenth), Note(MiddleC, Sixteenth),
                                  Note(MiddleC, Sixteenth) >>) >>)

\* { ... }, \tuplet { ... }, \drummode { ... }, nested \drummode, and a
\* staff beside (or before) a drum staff, in either order.
MusicTrees ==
    Blocks(MelodicLeaves)
    \cup Blocks(OtherLeaves)
    \cup { Scaler(f, << b >>) : f \in { Tuplet, Septuplet }, b \in Blocks(FewMelodicLeaves) }
    \cup { SeptupletRun }
    \cup { Container("DrumMode", << Block(<< DrumNote(n, Quarter) >>) >>) : n \in DrumNames }
    \cup DrumBlocks(DrumLeaves)
    \cup DrumBlocks(DrumChordLeaves)
    \cup { Container("DrumMode", << Block(<< d, DrumNote("sn", Quarter) >>) >>) :
             d \in DrumBlocks(DrumStaffLeaves) }
    \cup { MusicList(<< Container("Context", << m >>), Container("Context", << d >>) >>, TRUE) :
             m \in Blocks(StaffLeaves), d \in DrumBlocks(DrumStaffLeaves) }
    \cup { MusicList(<< Container("Context", << d >>), Container("Context", << m >>) >>, sim) :
             m \in Blocks(StaffLeaves), d \in DrumBlocks(DrumStaffLeaves), sim \in BOOLEAN }

Root(kids) == Container("Document", kids)

TempoQuarter90 == Tempo(<< 1, 4 >>, << 90 >>)          \* \tempo 4 = 90
TempoDotted60 == Tempo(<< 3, 8 >>, << 60 >>)           \* \tempo 4. = 60
TempoRange == Tempo(<< 1, 2 >>, << 54, 66 >>)          \* \tempo 2 = 54-66
TempoNoUnit == Tempo(<< 0, 1 >>, << 77 >>)             \* a number, no beat unit
TempoText == Tempo(<< 0, 1 >>, << >>)                  \* \tempo "Allegro"
TempoNodes == { TempoQuarter90, TempoDotted60, TempoRange, TempoNoUnit, TempoText }

StringValue == Item("String")
Header == Container("Header", << Container("Assignment", << StringValue >>) >>)

\* Documents that hold music: bare, assigned to a variable, after a header.
MusicDocs ==
    { Root(<< m >>) : m \in MusicTrees }
    \cup { Root(<< Header, Container("Assignment", << m >>) >>) : m \in Blocks(FewMelodicLeaves) }

\* Documents with tempo markings before, inside and after the music.
TempoDocs ==
    { Root(pre \o << Block(inner \o << Note(MiddleC, Quarter) >>) >> \o post) :
        pre \in SeqsUpTo({ TempoQuarter90, TempoText }, 1),
        inner \in SeqsUpTo({ TempoDotted60, TempoText }, MaxLen),
        post \in SeqsUpTo({ TempoRange, TempoNoUnit }, 1) }

\* Documents without music.
NoMusicDocs ==
    { Root(kids) : kids \in SeqsUpTo({ TempoQuarter90, TempoText, Header, StringValue }, MaxLen) }
    \cup { Root(<< Container("Assignment", << t >>) >>) : t \in TempoNodes }

Docs == MusicDocs \cup TempoDocs \cup NoMusicDocs

TicksPerBeat == { 1, 480 }
TempoFallbacks == { 120, 100 }
NoPath == "None"
TempPath == "tmp.mid"
OutputPaths == { NoPath, "out.mid" }

(***************************************************************************)
(* convert_lilypond_to_midi_path, calling lilypond_to_midifile.            *)
(***************************************************************************)
Idle ==
    /\ music_node = NoNode
    /\ track = << >>
    /\ events = << >>
    /\ in_drum_mode = FALSE
    /\ visits = << >>
    /\ warned = << >>
    /\ timeline = << >>
    /\ raised = "none"
    /\ files = { }
    /\ returned = "none"
    /\ prepass = "none"
    /\ runs = << >>
    /\ parked = << >>

\* No call of rappa.py's ABCPlayer is under way.
AbcIdle ==
    /\ note_str = << >>
    /\ parsed = << >>
    /\ notes = << >>
    /\ tempo_bpm = 120
    /\ note_index = 0

\* The call is made directly, not from main or play of rappa.py.
NoCaller ==
    /\ caller = "none"
    /\ save_midi = NoPath
    /\ temp_path = "none"

Init ==
    /\ doc \in Docs
    /\ tempo_fallback \in TempoFallbacks
    /\ ticks_per_beat \in TicksPerBeat
    /\ output_path \in OutputPaths
    /\ pc = "start"
    /\ Idle
    /\ AbcIdle
    /\ \/ NoCaller
       \/ /\ caller = "main"
          /\ tempo_fallback = 120
          /\ ticks_per_beat = 480
          /\ save_midi = output_path
          /\ temp_path = "none"
    /\ pitch_in = << >>
    /\ pitch_out = << >>

\* Lines 181-184.
FindMusicNode ==
    /\ pc = "start"
    /\ music_node' = _find_music_node(doc)
    /\ IF music_node' = NoNode
       THEN raised' = "ValueError" /\ pc' = "raised"
       ELSE raised' = raised /\ pc' = "tempo"
    /\ UNCHANGED << doc, tempo_fallback, ticks_per_beat, output_path, track, events,
                    in_drum_mode, visits, warned, timeline, files, returned,
                    pitch_in, pitch_out, call_vars, abc_vars >>

\* Lines 186-191.
ExtractTempo ==
    /\ pc = "tempo"
    /\ track' = << TrackName, SetTempo(bpm2tempo(_extract_tempo(doc, tempo_fallback))) >>
    /\ pc' = "collect"
    /\ UNCHANGED << doc, tempo_fallback, ticks_per_beat, output_path, music_node, events,
                    in_drum_mode, visits, warned, timeline, raised, files, returned,
                    pitch_in, pitch_out, call_vars, abc_vars >>

\* Lines 193-194.
CollectEvents ==
    /\ pc = "collect"
    /\ LET c == read(music_node, ticks_per_beat)
       IN  /\ events' = c.events
           /\ in_drum_mode' = c.in_drum_mode
           /\ warned' = c.warned
           /\ visits' = c.visits
    /\ pc' = "assemble"
    /\ UNCHANGED << doc, tempo_fallback, ticks_per_beat, output_path, music_node, track,
                    timeline, raised, files, returned, pitch_in, pitch_out,
                    call_vars, abc_vars >>

\* Lines 196-204.
AssembleTimeline ==
    /\ pc = "assemble"
    /\ timeline' = SortTimeline(Explode(events, 1))
    /\ pc' = "emit"
    /\ UNCHANGED << doc, tempo_fallback, ticks_per_beat, output_path, music_node, track,
                    events, in_drum_mode, visits, warned, raised, files, returned,
                    pitch_in, pitch_out, call_vars, abc_vars >>

\* Lines 206-216: lilypond_to_midifile returns the MidiFile.
EmitMessages ==
    /\ pc = "emit"
    /\ track' = track \o Emit(timeline, 1, 0) \o << EndOfTrack >>
    /\ pc' = "save"
    /\ UNCHANGED << doc, tempo_fallback, ticks_per_beat, output_path, music_node, events,
                    in_drum_mode, visits, warned, timeline, raised, files, returned,
                    pitch_in, pitch_out, call_vars, abc_vars >>

\* Lines 231-243, midi.save succeeding.
SaveMidi ==
    /\ pc = "save"
    /\ LET path == IF output_path = NoPath THEN TempPath ELSE output_path
       IN  files' = files \cup { path } /\ returned' = path
    /\ pc' = "done"
    /\ UNCHANGED << doc, tempo_fallback, ticks_per_beat, output_path, music_node, track,
                    events, in_drum_mode, visits, warned, timeline, raised,
                    pitch_in, pitch_out, call_vars, abc_vars >>

\* Lines 231-243, midi.save raising: the temporary file, if one was made, is
\* unlinked and the exception raised again.
SaveFails ==
    /\ pc = "save"
    /\ files' = files \ { TempPath }
    /\ raised' = "OSError"
    /\ pc' = "raised"
    /\ UNCHANGED << doc, tempo_fallback, ticks_per_beat, output_path, music_node, track,
                    events, in_drum_mode, visits, warned, timeline, returned,
                    pitch_in, pitch_out, call_vars, abc_vars >>

\* What stops player.play_midi before it returns: no MIDI output port, or
\* the user's interrupt.
PlaybackFailures == { "MIDIPortError", "KeyboardInterrupt" }

\* rappa.py main, lines 396-398 and 405-407: play_midi returns and the file
\* is removed unless a path to save it at was given.
MainPlayMidi ==
    /\ pc = "done"
    /\ caller = "main"
    /\ files' = IF save_midi = NoPath THEN files \ { returned } ELSE files
    /\ pc' = "main_done"
    /\ UNCHANGED << doc, tempo_fallback, ticks_per_beat, output_path, music_node, track,
                    events, in_drum_mode, visits, warned, timeline, raised, returned,
                    pitch_in, pitch_out, call_vars, abc_vars >>

\* rappa.py main, lines 396/405 and 412-416: play_midi does not return; the
\* unlink is passed over, an interrupt ends main and MIDIPortError becomes
\* sys.exit(1).
MainPlayMidiFails ==
    /\ pc = "done"
    /\ caller = "main"
    /\ \E failure \in PlaybackFailures :
          IF failure = "KeyboardInterrupt"
          THEN raised' = raised /\ pc' = "main_done"
          ELSE raised' = "SystemExit" /\ pc' = "main_exit"
    /\ UNCHANGED << doc, tempo_fallback, ticks_per_beat, output_path, music_node, track,
                    events, in_drum_mode, visits, warned, timeline, files, returned,
                    pitch_in, pitch_out, call_vars, abc_vars >>

\* rappa.py main, lines 412-421: an exception that left the call made from
\* main is caught; all but the interrupt become sys.exit(1).
MainCatch ==
    /\ pc = "raised"
    /\ caller = "main"
    /\ IF raised = "KeyboardInterrupt"
       THEN raised' = "none" /\ pc' = "main_done"
       ELSE raised' = "SystemExit" /\ pc' = "main_exit"
    /\ UNCHANGED << doc, tempo_fallback, ticks_per_beat, output_path, music_node, track,
                    events, in_drum_mode, visits, warned, timeline, files, returned,
                    pitch_in, pitch_out, call_vars, abc_vars >>

Next ==
    \/ FindMusicNode
    \/ ExtractTempo
    \/ CollectEvents
    \/ AssembleTimeline
    \/ EmitMessages
    \/ SaveMidi
    \/ SaveFails
    \/ MainPlayMidi
    \/ MainPlayMidiFails
    \/ MainCatch

Spec == Init /\ [][Next]_vars

(***************************************************************************)
(* pitch_to_midi on its own: two pitches are drawn and converted.          *)
(***************************************************************************)
PitchInit ==
    /\ doc = Root(<< >>)
    /\ tempo_fallback = 120
    /\ ticks_per_beat = 480
    /\ output_path = NoPath
    /\ pc = "pitch"
    /\ Idle
    /\ AbcIdle
    /\ NoCaller
    /\ pitch_in \in PitchPairs
    /\ pitch_out = << >>

ApplyPitch ==
    /\ pc = "pitch"
    /\ pitch_out' = << pitch_to_midi(pitch_in[1]), pitch_to_midi(pitch_in[2]) >>
    /\ pc' = "pitched"
    /\ UNCHANGED << doc, tempo_fallback, ticks_per_beat, output_path, music_node, track,
                    events, in_drum_mode, visits, warned, timeline, raised, files,
                    returned, pitch_in, call_vars, abc_vars >>

PitchNext == ApplyPitch

PitchSpec == PitchInit /\ [][PitchNext]_vars

(***************************************************************************)
(* What the claims speak of, read off the document itself.                 *)
(***************************************************************************)
Collected == pc \in { "assemble", "emit", "save", "done", "main_done" } \/ raised = "OSError"
Assembled == pc \in { "emit", "save", "done", "main_done" } \/ raised = "OSError"
Emitted == pc \in { "save", "done", "main_done" } \/ raised = "OSError"

\* The semitones of an alteration and of a letter, as the notation defines
\* them: a sharp or flat is one semitone, a double two, a quarter tone
\* rounds to the even neighbour.
SemitonesOf(alter) ==
    CASE alter = << 0, 1 >>  -> 0
      [] alter = << 1, 2 >>  -> 1
      [] alter = << -1, 2 >> -> -1
      [] alter = << 1, 1 >>  -> 2
      [] alter = << -1, 1 >> -> -2
      [] alter = << 1, 4 >>  -> 0
      [] alter = << -1, 4 >> -> 0
      [] alter = << 3, 4 >>  -> 2
      [] alter = << -3, 4 >> -> -2

LetterSemitones(note) ==
    CASE note = 0 -> 0 [] note = 1 -> 2 [] note = 2 -> 4 [] note = 3 -> 5
      [] note = 4 -> 7 [] note = 5 -> 9 [] note = 6 -> 11

Saturate(n) == IF n < 0 THEN 0 ELSE IF n > 127 THEN 127 ELSE n

\* The playable items below a node in traversal order, a chord counting as
\* one item: [node, scaling, inside], scaling the product of the enclosing
\* tuplet factors, inside whether a drum block encloses the item.
RECURSIVE LeavesOf(_, _, _)
RECURSIVE LeavesOfKids(_, _, _, _)
LeavesOfKids(kids, i, scaling, inside) ==
    IF i > Len(kids) THEN << >>
    ELSE LeavesOf(kids[i], scaling, inside) \o LeavesOfKids(kids, i + 1, scaling, inside)
LeavesOf(node, scaling, inside) ==
    IF node.kind \in { "MusicList", "Context", "DrumMode", "Scaler" }
    THEN LeavesOfKids(node.kids, 1,
                      << scaling[1] * node.scaling[1], scaling[2] * node.scaling[2] >>,
                      inside \/ node.kind = "DrumMode")
    ELSE IF node.kind \in { "Note", "Rest", "Skip", "Q", "DrumNote", "Unpitched", "Chord" }
    THEN << [ node |-> node, scaling |-> scaling, inside |-> inside ] >>
    ELSE << >>

Leaves == LeavesOf(music_node, << 1, 1 >>, FALSE)

\* The length of a leaf in ticks before the floor of one tick: the nearest
\* integer to base * factor * scaling * 4 * ticks_per_beat.
RawTicks(leaf) ==
    LET n == leaf.node.duration[1][1] * leaf.node.duration[2][1] * leaf.scaling[1]
             * 4 * ticks_per_beat
        d == leaf.node.duration[1][2] * leaf.node.duration[2][2] * leaf.scaling[2]
        q == n \div d
    IN  IF 2 * (n - q * d) < d \/ (2 * (n - q * d) = d /\ q % 2 = 0) THEN q ELSE q + 1

DrumTable ==
    { << "bd", 36 >>, << "sn", 38 >>, << "hh", 42 >>, << "hhc", 42 >>, << "hho", 46 >>,
      << "cymc", 49 >>, << "toml", 45 >>, << "tomm", 48 >>, << "tomh", 50 >> }
Mapped(name) == \E row \in DrumTable : row[1] = name
TableNote(name) == (CHOOSE row \in DrumTable : row[1] = name)[2]

\* The names of the mapped drum notes among the members of a chord.
RECURSIVE MappedMembers(_, _)
MappedMembers(kids, i) ==
    IF i > Len(kids) THEN << >>
    ELSE (IF kids[i].kind = "DrumNote" /\ Mapped(kids[i].token)
          THEN << kids[i].token >> ELSE << >>) \o MappedMembers(kids, i + 1)

\* The events a leaf is to give: [leaf (its index), note, channel, ticks].
ExpectedOfLeaf(leaf, k) ==
    LET ticks == IF RawTicks(leaf) < 1 THEN 1 ELSE RawTicks(leaf)
        ev(note, channel) == [ leaf |-> k, note |-> note, channel |-> channel, ticks |-> ticks ]
    IN  CASE leaf.node.kind = "Chord" /\ leaf.inside ->
               LET names == MappedMembers(leaf.node.kids, 1)
               IN  [ i \in DOMAIN names |-> ev(TableNote(names[i]), 9) ]
          [] leaf.node.kind = "Chord" /\ ~leaf.inside -> << >>
          [] leaf.node.kind = "DrumNote" ->
               << ev(IF Mapped(leaf.node.token) THEN TableNote(leaf.node.token) ELSE NoNote, 9) >>
          [] leaf.node.kind = "Note" ->
               << ev(Saturate(12 * (leaf.node.pitch.octave + 4)
                              + LetterSemitones(leaf.node.pitch.note)
                              + SemitonesOf(leaf.node.pitch.alter)), 0) >>
          [] OTHER -> << ev(NoNote, 0) >>

RECURSIVE ExpectedFrom(_, _)
ExpectedFrom(leaves, k) ==
    IF k > Len(leaves) THEN << >>
    ELSE ExpectedOfLeaf(leaves[k], k) \o ExpectedFrom(leaves, k + 1)

Expected == ExpectedFrom(Leaves, 1)

HasNote(e) == e.note # NoNote

(***************************************************************************)
(* C1.  The assembled timeline is non-decreasing in tick, and among        *)
(* entries of equal tick every OFF entry precedes every ON entry.          *)
(***************************************************************************)
C1_TimelineOrdered ==
    \A i, j \in DOMAIN timeline :
        i < j => /\ timeline[i].tick <= timeline[j].tick
                 /\ ~( /\ timeline[i].tick = timeline[j].tick
                       /\ timeline[i].kind = "on"
                       /\ timeline[j].kind = "off" )

\* The events as collected hold an ON before an OFF of the same tick, and a
\* later event that starts before an earlier one: the sort has to move both.
C1_Witness ==
    /\ pc = "emit"
    /\ \E i, j \in DOMAIN events :
          /\ i < j
          /\ HasNote(events[i]) /\ HasNote(events[j])
          /\ events[i].start = events[j].start + events[j].duration
    /\ \E i, j \in DOMAIN events :
          i < j /\ HasNote(events[i]) /\ HasNote(events[j])
                /\ events[j].start < events[i].start

(***************************************************************************)
(* C2.  pitch_to_midi returns a value in 0..127 and is non-decreasing in   *)
(* the octave (letter and alteration fixed) and in the letter within an    *)
(* octave (octave and alteration fixed).                                   *)
(***************************************************************************)
C2_PitchRangeMonotone ==
    pc = "pitched" =>
        LET a == pitch_in[1]
            b == pitch_in[2]
        IN  /\ pitch_out[1] \in 0 .. 127
            /\ pitch_out[2] \in 0 .. 127
            /\ (a.note = b.note /\ a.octave <= b.octave) => pitch_out[1] <= pitch_out[2]
            /\ (a.octave = b.octave /\ a.note <= b.note) => pitch_out[1] <= pitch_out[2]

\* A pair an octave apart strictly inside the range, and pairs saturating
\* at either end, are converted.
C2_Witness ==
    /\ pc = "pitched"
    /\ pitch_in[1].note = pitch_in[2].note
    /\ pitch_in[1].octave = -MaxOctave
    /\ pitch_in[2].octave = MaxOctave
    /\ pitch_out = << 0, 127 >>

(***************************************************************************)
(* C3 as stated: the unaltered C of octave 0 maps to MIDI note 60.         *)
(***************************************************************************)
C3_Octave0IsMiddleC ==
    (pc = "pitched" /\ pitch_in[1] = Pitch(0, 0, << 0, 1 >>)) => pitch_out[1] = 60

(***************************************************************************)
(* C3 amended.  pitch_to_midi is 12 * (octave + 4) + the letter's          *)
(* semitones + the alteration's semitones, saturated to 0..127: the        *)
(* unaltered C of octave 1 (c') maps to 60, that of octave 0 to 48.        *)
(***************************************************************************)
C3_Octave1IsMiddleC ==
    pc = "pitched" =>
        \A k \in 1 .. 2 :
            LET p == pitch_in[k]
            IN  /\ pitch_out[k] = Saturate(12 * (p.octave + 4) + LetterSemitones(p.note)
                                           + SemitonesOf(p.alter))
                /\ p = Pitch(0, 1, << 0, 1 >>) => pitch_out[k] = 60
                /\ p = Pitch(0, 0, << 0, 1 >>) => pitch_out[k] = 48

C3_Witness ==
    /\ pc = "pitched"
    /\ pitch_in[1] = Pitch(0, 0, << 0, 1 >>)
    /\ pitch_in[2] = Pitch(0, 1, << 0, 1 >>)
    /\ pitch_out = << 48, 60 >>

(***************************************************************************)
(* C4.  Every collected TimedEvent has start >= 0 and a duration of        *)
(* max(1, round(node duration * scaling * 4 * ticks_per_beat)) ticks, so   *)
(* at least one tick, whatever the duration, scaling and resolution.       *)
(***************************************************************************)
C4_EventTicks ==
    Collected =>
        LET expected == Expected
        IN  /\ Len(events) = Len(expected)
            /\ \A i \in DOMAIN events :
                  /\ events[i].start >= 0
                  /\ events[i].duration >= 1
                  /\ events[i].duration = expected[i].ticks

\* Events whose length rounds to zero ticks, one of them of a length that
\* is zero after scaling, one of them in a tuplet, are floored to one tick.
C4_Witness ==
    /\ Collected
    /\ \E k \in DOMAIN Leaves :
          /\ RawTicks(Leaves[k]) = 0
          /\ Leaves[k].node.duration[2][1] = 0
          /\ \E i \in DOMAIN events : Expected[i].leaf = k /\ events[i].duration = 1
    /\ Len(Leaves) <= MaxLen
    /\ \E k \in DOMAIN Leaves :
          /\ RawTicks(Leaves[k]) = 0
          /\ Leaves[k].node.duration[2][1] # 0
          /\ Leaves[k].scaling # << 1, 1 >>
          /\ \E i \in DOMAIN events : Expected[i].leaf = k /\ events[i].duration = 1

\* The nodes below a node, and those that are music.
RECURSIVE NodesBelow(_)
NodesBelow(node) ==
    UNION { { node.kids[i] } \cup NodesBelow(node.kids[i]) : i \in DOMAIN node.kids }

MusicKinds == { "MusicList", "Context", "DrumMode", "Scaler" }

NoMusicInDocument ==
    \A n \in NodesBelow(doc) :
        /\ n.kind \notin MusicKinds
        /\ n.kind = "Assignment" => \A i \in DOMAIN n.kids : n.kids[i].kind \notin MusicKinds

\* The note-on and note-off messages of the track, as << note, channel >>.
IsNoteOn(msg) == msg.type = "note_on"
IsNoteOff(msg) == msg.type = "note_off"
NoteAndChannel(msgs) == [ i \in DOMAIN msgs |-> << msgs[i].note, msgs[i].channel >> ]
NoteOns == NoteAndChannel(SelectSeq(track, IsNoteOn))
NoteOffs == NoteAndChannel(SelectSeq(track, IsNoteOff))

\* The notes the document is to sound, in the order met.
ExpectedNotes ==
    LET e == SelectSeq(Expected, HasNote)
    IN  [ i \in DOMAIN e |-> << e[i].note, e[i].channel >> ]

\* No simultaneous list in the music: one sequential context.
Sequential == \A n \in { music_node } \cup NodesBelow(music_node) : ~n.simultaneous

\* The start tick of leaf k of a sequential context: the nearest integer to
\* the summed lengths of the leaves before it, in ticks.
RECURSIVE TimeBefore(_, _)
TimeBefore(leaves, k) ==
    IF k = 1 THEN << 0, 1 >>
    ELSE LET t == TimeBefore(leaves, k - 1)
             l == leaves[k - 1]
             n == l.node.duration[1][1] * l.node.duration[2][1] * l.scaling[1]
             d == l.node.duration[1][2] * l.node.duration[2][2] * l.scaling[2]
         IN  << t[1] * d + n * t[2], t[2] * d >>

StartOfLeaf(k) ==
    LET before == TimeBefore(Leaves, k)
        n == before[1] * 4 * ticks_per_beat
        d == before[2]
        q == n \div d
    IN  IF 2 * (n - q * d) < d \/ (2 * (n - q * d) = d /\ q % 2 = 0) THEN q ELSE q + 1

(***************************************************************************)
(* C5.  A document without music makes lilypond_to_midifile raise          *)
(* ValueError and return no MidiFile; convert_lilypond_to_midi_path then   *)
(* writes no file and makes no temporary file, tempo marking or not; main  *)
(* of rappa.py, when the call is its own, catches the ValueError and       *)
(* exits.                                                                  *)
(***************************************************************************)
C5_NoMusicNoFile ==
    NoMusicInDocument =>
        /\ pc \in { "start", "raised", "main_exit" }
        /\ pc = "raised" => raised = "ValueError"
        /\ pc = "main_exit" => raised = "SystemExit"
        /\ track = << >>
        /\ files = { }
        /\ returned = "none"

\* The call has failed on a document that holds a tempo marking with a
\* number and no music, no output path given.
C5_Witness ==
    /\ pc = "raised"
    /\ raised = "ValueError"
    /\ output_path = NoPath
    /\ \E n \in NodesBelow(doc) : n.kind = "Tempo" /\ Len(n.values) > 0
    /\ \E n \in NodesBelow(doc) : n.kind = "Assignment"
    /\ files = { }

(***************************************************************************)
(* C6.  The drum-mode flag is true at the visit of a node exactly when the *)
(* node is a DrumMode or lies below one; on return from a visit the flag   *)
(* has the value it had on entry, and it is false after the traversal.     *)
(* Every note of a staff is emitted on channel 0 with its pitch number and *)
(* every drum note on channel 9, whichever comes first.                    *)
(***************************************************************************)
C6_DrumModeScoped ==
    Collected =>
        /\ \A i \in DOMAIN visits :
              /\ visits[i].at = "enter" => visits[i].flag = visits[i].inside
              /\ visits[i].at = "leave" => visits[i].flag = visits[i].was
        /\ in_drum_mode = FALSE
        /\ LET expected == Expected
               leaves == Leaves
           IN  /\ Len(events) = Len(expected)
               /\ \A i \in DOMAIN events :
                     LET leaf == leaves[expected[i].leaf]
                     IN  /\ leaf.node.kind = "Note" =>
                               events[i].channel = 0 /\ events[i].note = expected[i].note
                         /\ leaf.node.kind \in { "DrumNote", "Chord" } =>
                               events[i].channel = 9

\* A drum staff and then a staff, simultaneous: the drum note is collected
\* on channel 9, the staff's note after it on channel 0, and the staff's
\* chord is visited with the flag false again.
C6_Witness ==
    /\ Collected
    /\ music_node.kind = "MusicList" /\ music_node.simultaneous
    /\ music_node.kids[1].kids[1].kind = "DrumMode"
    /\ \E i, j \in DOMAIN events :
          /\ i < j
          /\ events[i].channel = 9 /\ events[i].note = 36
          /\ events[j].channel = 0 /\ events[j].note = 60
    /\ \E i, j \in DOMAIN visits :
          /\ i < j
          /\ visits[i].at = "leave" /\ visits[i].kind = "DrumMode" /\ ~visits[i].flag
          /\ visits[j].at = "enter" /\ visits[j].kind = "Chord" /\ ~visits[j].flag

(***************************************************************************)
(* C7.  A chord visited in drum mode gives exactly one event per member    *)
(* with a mapped name, in member order, each with the chord's start, the   *)
(* chord's duration and channel 9, and none a second time: a sequence of   *)
(* drum chords sounds the sum of their mapped members, in the order met.   *)
(***************************************************************************)
C7_DrumChordMembers ==
    /\ Collected =>
          LET expected == Expected
              leaves == Leaves
              sequential == Sequential
          IN  /\ Len(events) = Len(expected)
              /\ \A i \in DOMAIN events :
                    LET k == expected[i].leaf
                    IN  (leaves[k].node.kind = "Chord" /\ leaves[k].inside) =>
                            /\ events[i].note = expected[i].note
                            /\ events[i].channel = 9
                            /\ events[i].duration = expected[i].ticks
                            /\ sequential => events[i].start = StartOfLeaf(k)
                            /\ \A j \in DOMAIN events :
                                  expected[j].leaf = k =>
                                      /\ events[j].start = events[i].start
                                      /\ events[j].duration = events[i].duration
    /\ (Emitted /\ Sequential) => NoteOns = ExpectedNotes

\* \drummode { <bd hh>4 <sn hho>8 } has sounded 36, 42, 38, 46, the first
\* two from tick 0.
C7_Witness ==
    /\ Emitted
    /\ music_node = Container("DrumMode",
                      << Block(<< DrumChord(<< "bd", "hh" >>, Quarter),
                                  DrumChord(<< "sn", "hho" >>, Eighth) >>) >>)
    /\ NoteOns = << << 36, 9 >>, << 42, 9 >>, << 38, 9 >>, << 46, 9 >> >>
    /\ events[1].start = 0 /\ events[2].start = 0
    /\ events[3].start = ticks_per_beat /\ events[4].start = ticks_per_beat

(***************************************************************************)
(* C8.  In a drum block of single drum notes, every note named bd, sn, hh, *)
(* hhc, hho, cymc, toml, tomm or tomh gives exactly one note-on and one    *)
(* note-off on channel 9 with the note number 36, 38, 42, 42, 46, 49, 45,  *)
(* 48, 50 of its name, and the pairs come in source order.                 *)
(***************************************************************************)
SingleDrumNotes ==
    /\ music_node.kind = "DrumMode"
    /\ Len(music_node.kids) = 1
    /\ music_node.kids[1].kind = "MusicList"
    /\ \A i \in DOMAIN music_node.kids[1].kids : music_node.kids[1].kids[i].kind = "DrumNote"

C8_DrumTable ==
    (Emitted /\ SingleDrumNotes) =>
        LET all == music_node.kids[1].kids
            IsMapped(n) == Mapped(n.token)
            mapped == SelectSeq(all, IsMapped)
            pairs == [ i \in DOMAIN mapped |-> << TableNote(mapped[i].token), 9 >> ]
        IN  NoteOns = pairs /\ NoteOffs = pairs

\* \drummode { tomm4 hhc4 } has been converted.
C8_Witness ==
    /\ pc = "done"
    /\ SingleDrumNotes
    /\ Len(music_node.kids[1].kids) = 2
    /\ music_node.kids[1].kids[1].token = "tomm"
    /\ music_node.kids[1].kids[2].token = "hhc"
    /\ NoteOns = << << 48, 9 >>, << 42, 9 >> >>
    /\ NoteOffs = << << 48, 9 >>, << 42, 9 >> >>

\* The document with every unmapped drum name replaced by a mapped one.
RECURSIVE WithMappedNames(_)
WithMappedNames(node) ==
    [ node EXCEPT
        !.token = IF node.kind = "DrumNote" /\ ~Mapped(node.token) THEN "bd" ELSE @,
        !.kids = [ i \in DOMAIN node.kids |-> WithMappedNames(node.kids[i]) ] ]

\* Per event the document would give were every drum name mapped: whether
\* the name it comes from is mapped (TRUE for what is no drum note).
RECURSIVE MemberFlags(_, _)
MemberFlags(kids, i) ==
    IF i > Len(kids) THEN << >>
    ELSE (IF kids[i].kind = "DrumNote" THEN << Mapped(kids[i].token) >> ELSE << >>)
         \o MemberFlags(kids, i + 1)

RECURSIVE OriginFlags(_, _)
OriginFlags(leaves, k) ==
    IF k > Len(leaves) THEN << >>
    ELSE (CASE leaves[k].node.kind = "Chord" /\ leaves[k].inside ->
                 MemberFlags(leaves[k].node.kids, 1)
            [] leaves[k].node.kind = "Chord" /\ ~leaves[k].inside -> << >>
            [] leaves[k].node.kind = "DrumNote" -> << Mapped(leaves[k].node.token) >>
            [] OTHER -> << TRUE >>)
         \o OriginFlags(leaves, k + 1)

RECURSIVE KeepFlagged(_, _, _)
KeepFlagged(q, flags, i) ==
    IF i > Len(q) THEN << >>
    ELSE (IF flags[i] THEN << q[i] >> ELSE << >>) \o KeepFlagged(q, flags, i + 1)

\* The unmapped drum names of the document, in the order met.
RECURSIVE UnmappedMembers(_, _)
UnmappedMembers(kids, i) ==
    IF i > Len(kids) THEN << >>
    ELSE (IF kids[i].kind = "DrumNote" /\ ~Mapped(kids[i].token)
          THEN << kids[i].token >> ELSE << >>) \o UnmappedMembers(kids, i + 1)

RECURSIVE UnmappedNames(_, _)
UnmappedNames(leaves, k) ==
    IF k > Len(leaves) THEN << >>
    ELSE (CASE leaves[k].node.kind = "Chord" /\ leaves[k].inside ->
                 UnmappedMembers(leaves[k].node.kids, 1)
            [] leaves[k].node.kind = "DrumNote" /\ ~Mapped(leaves[k].node.token) ->
                 << leaves[k].node.token >>
            [] OTHER -> << >>)
         \o UnmappedNames(leaves, k + 1)

IsUnmappedDrumEvent(e) == e.channel = 9 /\ e.note = NoNote
NotUnmappedDrumEvent(e) == ~IsUnmappedDrumEvent(e)

(***************************************************************************)
(* C9.  A drum note with a name outside the table, alone or in a chord,    *)
(* gives no note-on and no note-off and a warning naming it; the           *)
(* conversion goes on, and every other event has the start, duration and   *)
(* channel it would have were the name mapped.                             *)
(***************************************************************************)
C9_UnmappedDrumSkipped ==
    (music_node # NoNode) =>
        LET leaves == Leaves
            unmapped == UnmappedNames(leaves, 1)
        IN  /\ Collected =>
                  /\ warned = unmapped
                  /\ SelectSeq(events, NotUnmappedDrumEvent)
                       = KeepFlagged(read(WithMappedNames(music_node), ticks_per_beat).events,
                                     OriginFlags(leaves, 1), 1)
            /\ Emitted =>
                  LET sounding == Len(SelectSeq(ExpectedFrom(leaves, 1), HasNote))
                  IN  /\ Len(SelectSeq(track, IsNoteOn)) = sounding
                      /\ Len(SelectSeq(track, IsNoteOff)) = sounding
                      /\ \A i \in DOMAIN track :
                            track[i].type \in { "note_on", "note_off" } =>
                                track[i].note \in 0 .. 127
            /\ unmapped # << >> => raised # "ValueError"

\* \drummode { <sn unknowndrum bd>128 unknowndrum8 } has been converted:
\* two warnings, two notes.
C9_Witness ==
    /\ pc = "done"
    /\ music_node = Container("DrumMode",
                      << Block(<< DrumChord(<< "sn", UnmappedName, "bd" >>, Short),
                                  DrumNote(UnmappedName, Eighth) >>) >>)
    /\ warned = << UnmappedName, UnmappedName >>
    /\ NoteOns = << << 38, 9 >>, << 36, 9 >> >>
    /\ Len(events) = 3

\* The tempo in microseconds per quarter note of a marking that states a
\* number: 60,000,000 over (number * beat unit / quarter), to the nearest
\* integer; a marking without a beat unit counts in quarters.
StatesNumber(n) == n.kind = "Tempo" /\ Len(n.values) > 0
MicrosecondsOf(number, unit) ==
    LET n == 60000000 * unit[2]
        d == number * 4 * unit[1]
        q == n \div d
    IN  IF 2 * (n - q * d) < d \/ (2 * (n - q * d) = d /\ q % 2 = 0) THEN q ELSE q + 1
TempoOfMarking(n) ==
    MicrosecondsOf(n.values[1], IF n.duration[1][1] = 0 THEN << 1, 4 >> ELSE n.duration[1])
TempoOfFallback == MicrosecondsOf(tempo_fallback, << 1, 4 >>)

\* The nodes of the document in document order, root excluded.
RECURSIVE DocumentOrder(_)
DocumentOrder(node) ==
    LET Below[i \in 0 .. Len(node.kids)] ==
            IF i = 0 THEN << >>
            ELSE Below[i - 1] \o << node.kids[i] >> \o DocumentOrder(node.kids[i])
    IN  Below[Len(node.kids)]

TempoSet == track # << >>
TrackTempo == track[2].tempo

(***************************************************************************)
(* C10 as stated: the first tempo marking of the document decides the      *)
(* tempo, a later marking never does; the fallback serves only where the   *)
(* first marking gives no number or there is none.                         *)
(***************************************************************************)
C10_FirstMarkingDecides ==
    TempoSet =>
        LET order == DocumentOrder(doc)
            marks == { i \in DOMAIN order : order[i].kind = "Tempo" }
        IN  IF marks = { } THEN TrackTempo = TempoOfFallback
            ELSE LET first == order[CHOOSE i \in marks : \A j \in marks : i <= j]
                 IN  TrackTempo = IF StatesNumber(first) THEN TempoOfMarking(first)
                                  ELSE TempoOfFallback

(***************************************************************************)
(* C10 amended.  The set_tempo value comes from the first tempo marking in *)
(* document order, over the whole document, that states a BPM number,      *)
(* markings without a number being passed over: the number times (beat     *)
(* unit / quarter), quarters when no unit is given.  The fallback is used  *)
(* when no marking states a number, and a marking after the first one that *)
(* states a number never overrides it.                                     *)
(***************************************************************************)
C10_FirstNumberedMarkingDecides ==
    TempoSet =>
        LET order == DocumentOrder(doc)
            marks == { i \in DOMAIN order : StatesNumber(order[i]) }
        IN  IF marks = { } THEN TrackTempo = TempoOfFallback
            ELSE TrackTempo = TempoOfMarking(order[CHOOSE i \in marks : \A j \in marks : i <= j])

\* A text-only marking before the music, \tempo 4. = 60 inside it and
\* \tempo 2 = 54-66 after it: the tempo is that of 90 quarters a minute.
C10_Witness ==
    /\ pc = "done"
    /\ Len(doc.kids) = 3
    /\ doc.kids[1] = TempoText
    /\ doc.kids[2].kids[1] = TempoDotted60
    /\ doc.kids[3] = TempoRange
    /\ TrackTempo = 666667
    /\ tempo_fallback = 100

\* The messages between the two meta messages and end_of_track, and the
\* absolute tick of each: the sum of the delays up to and including it.
NoteMessages == SubSeq(track, 3, Len(track) - 1)
RECURSIVE AbsoluteTick(_, _)
AbsoluteTick(msgs, i) == IF i = 0 THEN 0 ELSE AbsoluteTick(msgs, i - 1) + msgs[i].time

(***************************************************************************)
(* C11.  Every emitted message has a delay >= 0 that equals                *)
(* max(0, tick - tick of the message before it), the delays from the start *)
(* of the track up to and including a message sum to the absolute tick of  *)
(* its timeline entry, and so the note-on and note-off of every TimedEvent *)
(* with a note lie exactly the event's duration apart in the stream.       *)
(***************************************************************************)
C11_DelaysSumToTicks ==
    Emitted =>
        LET body == NoteMessages
            at == [ i \in DOMAIN body |-> AbsoluteTick(body, i) ]
        IN  /\ track[1].time = 0 /\ track[2].time = 0
            /\ Len(body) = Len(timeline)
            /\ \A i \in DOMAIN body :
                  LET before == IF i = 1 THEN 0 ELSE timeline[i - 1].tick
                  IN  /\ body[i].time >= 0
                      /\ body[i].time = IF timeline[i].tick > before
                                        THEN timeline[i].tick - before ELSE 0
                      /\ at[i] = timeline[i].tick
            /\ \A k \in DOMAIN events :
                  HasNote(events[k]) =>
                      \E a, b \in DOMAIN body :
                          /\ a < b
                          /\ IsNoteOn(body[a]) /\ IsNoteOff(body[b])
                          /\ body[a].note = events[k].note /\ body[b].note = events[k].note
                          /\ body[a].channel = events[k].channel
                          /\ body[b].channel = events[k].channel
                          /\ at[a] = events[k].start
                          /\ at[b] - at[a] = events[k].duration

\* Three notes of different lengths have been emitted: a message follows
\* another of the same tick with delay 0, and a message of a later tick
\* has a delay smaller than its tick.
C11_Witness ==
    /\ Emitted
    /\ Len(SelectSeq(events, HasNote)) >= 3
    /\ \E i \in DOMAIN NoteMessages :
          i > 1 /\ NoteMessages[i].time = 0 /\ timeline[i].tick > 0
    /\ \E i \in DOMAIN NoteMessages :
          NoteMessages[i].time > 0 /\ NoteMessages[i].time < timeline[i].tick
    /\ \E i, j \in DOMAIN events :
          events[i].duration # events[j].duration /\ HasNote(events[i]) /\ HasNote(events[j])

(***************************************************************************)
(* lilypond_to_midifile called again and again, by one caller or by two    *)
(* threads.  Every variable the function uses is a local of the call       *)
(* (lines 172-216): a thread that is switched out keeps its locals in      *)
(* `parked`, and a new call starts on whatever the memory holds and has to *)
(* initialise what it reads.                                               *)
(***************************************************************************)
RepeatDocs ==
    { Root(<< Block(<< Note(MiddleC, Quarter), Note(MiddleD, Eighth) >>) >>),
      Root(<< Container("DrumMode",
                << Block(<< DrumNote("bd", Quarter), DrumNote(UnmappedName, Eighth) >>) >>) >>),
      Root(<< TempoQuarter90,
              MusicList(<< Container("Context",
                             << Container("DrumMode", << Block(<< DrumNote("sn", Quarter) >>) >>) >>),
                           Container("Context", << Block(<< MelodicChord >>) >>) >>, TRUE) >>) }

RepeatInputs ==
    { [ doc |-> d, tempo_fallback |-> 120, ticks_per_beat |-> 480 ] : d \in RepeatDocs }
    \cup { [ doc |-> Root(<< Block(<< Note(MiddleC, Quarter), Note(MiddleD, Eighth) >>) >>),
             tempo_fallback |-> 100, ticks_per_beat |-> 1 ] }

Frame ==
    [ doc |-> doc, tempo_fallback |-> tempo_fallback, ticks_per_beat |-> ticks_per_beat,
      pc |-> pc, music_node |-> music_node, track |-> track, events |-> events,
      in_drum_mode |-> in_drum_mode, visits |-> visits, warned |-> warned,
      timeline |-> timeline, raised |-> raised ]

Running == pc \in { "start", "tempo", "collect", "assemble", "emit" }
CallsBegun == Len(runs) + (IF pc = "returned" THEN 0 ELSE 1) + Len(parked)

RepeatInit ==
    /\ \E input \in RepeatInputs :
          /\ doc = input.doc
          /\ tempo_fallback = input.tempo_fallback
          /\ ticks_per_beat = input.ticks_per_beat
    /\ output_path = NoPath
    /\ pc = "start"
    /\ Idle
    /\ AbcIdle
    /\ NoCaller
    /\ pitch_in = << >>
    /\ pitch_out = << >>

\* Line 216 (return mid) or line 184 (raise): the call ends.
Return ==
    /\ pc \in { "save", "raised" }
    /\ runs' = Append(runs, [ doc |-> doc, tempo_fallback |-> tempo_fallback,
                              ticks_per_beat |-> ticks_per_beat,
                              result |-> IF pc = "raised" THEN << raised >> ELSE track,
                              overlapped |-> parked # << >> ])
    /\ pc' = "returned"
    /\ UNCHANGED << doc, tempo_fallback, ticks_per_beat, output_path, music_node, track,
                    events, in_drum_mode, visits, warned, timeline, raised, files, returned,
                    pitch_in, pitch_out, prepass, parked, abc_vars >>

\* The caller calls lilypond_to_midifile once more (line 168).
CallAgain ==
    /\ pc = "returned"
    /\ CallsBegun < MaxCalls
    /\ \E input \in RepeatInputs :
          /\ doc' = input.doc
          /\ tempo_fallback' = input.tempo_fallback
          /\ ticks_per_beat' = input.ticks_per_beat
    /\ pc' = "start"
    /\ raised' = "none"
    /\ UNCHANGED << output_path, music_node, track, events, in_drum_mode, visits, warned,
                    timeline, files, returned, pitch_in, pitch_out, call_vars, abc_vars >>

\* A second thread calls lilypond_to_midifile while this call is under way.
Spawn ==
    /\ Running
    /\ parked = << >>
    /\ CallsBegun < MaxCalls
    /\ parked' = << Frame >>
    /\ \E input \in RepeatInputs :
          /\ doc' = input.doc
          /\ tempo_fallback' = input.tempo_fallback
          /\ ticks_per_beat' = input.ticks_per_beat
    /\ pc' = "start"
    /\ raised' = "none"
    /\ UNCHANGED << output_path, music_node, track, events, in_drum_mode, visits, warned,
                    timeline, files, returned, pitch_in, pitch_out, prepass, runs, abc_vars >>

\* The interpreter switches to the other thread, whose locals come back.
Resume ==
    /\ parked # << >>
    /\ doc' = parked[1].doc
    /\ tempo_fallback' = parked[1].tempo_fallback
    /\ ticks_per_beat' = parked[1].ticks_per_beat
    /\ pc' = parked[1].pc
    /\ music_node' = parked[1].music_node
    /\ track' = parked[1].track
    /\ events' = parked[1].events
    /\ in_drum_mode' = parked[1].in_drum_mode
    /\ visits' = parked[1].visits
    /\ warned' = parked[1].warned
    /\ timeline' = parked[1].timeline
    /\ raised' = parked[1].raised
    /\ parked' = IF pc = "returned" THEN << >> ELSE << Frame >>
    /\ UNCHANGED << output_path, files, returned, pitch_in, pitch_out, prepass, runs,
                    abc_vars >>

RepeatNext ==
    \/ FindMusicNode
    \/ ExtractTempo
    \/ CollectEvents
    \/ AssembleTimeline
    \/ EmitMessages
    \/ Return
    \/ CallAgain
    \/ Spawn
    \/ Resume

RepeatSpec == RepeatInit /\ [][RepeatNext]_vars

SameInput(a, b) ==
    /\ a.doc = b.doc
    /\ a.tempo_fallback = b.tempo_fallback
    /\ a.ticks_per_beat = b.ticks_per_beat

(***************************************************************************)
(* C12.  Two calls of lilypond_to_midifile on the same document and        *)
(* parameters end with the same message sequence (or the same exception),  *)
(* whether they follow one another, a call on another input runs between   *)
(* them, or another call is under way in a second thread: nothing a call   *)
(* collected, and no drum-mode flag, reaches another call.                 *)
(***************************************************************************)
C12_CallsIndependent ==
    \A i, j \in DOMAIN runs : SameInput(runs[i], runs[j]) => runs[i].result = runs[j].result

\* A drum document with an unmapped name was converted, then another input,
\* then the drum document again, one of the calls while another call was
\* under way: the two tracks hold the same five messages.
C12_Witness ==
    /\ Len(runs) = 3
    /\ SameInput(runs[1], runs[3])
    /\ ~SameInput(runs[1], runs[2])
    /\ runs[1].doc.kids[1].kind = "DrumMode"
    /\ Len(runs[3].result) = 5
    /\ Len(runs[2].result) > 1
    /\ \E i \in DOMAIN runs : runs[i].overlapped

(***************************************************************************)
(* The relative-pitch pre-pass, lines 173-179.  Before it the document     *)
(* holds \relative blocks: a Relative node whose children are the          *)
(* reference pitch (a Note without a duration of its own) and the music,   *)
(* the octave of every note in it counted from the note before.            *)
(***************************************************************************)
\* Pitch.makeAbsolute(lastPitch): the octave nearest to the last pitch.
makeAbsolute(pitch, last) ==
    [ pitch EXCEPT !.octave = @ + last.octave - ((pitch.note - last.note + 3) \div 7) ]

\* The notes of a \relative block made absolute, one after the other.
RECURSIVE AbsoluteKids(_, _, _)
AbsoluteKids(kids, i, last) ==
    IF i > Len(kids) THEN << >>
    ELSE IF kids[i].kind = "Note"
    THEN LET p == makeAbsolute(kids[i].pitch, last)
         IN  << [ kids[i] EXCEPT !.pitch = p ] >> \o AbsoluteKids(kids, i + 1, p)
    ELSE << kids[i] >> \o AbsoluteKids(kids, i + 1, last)

\* rel2abs.rel2abs(cursor) succeeding: every \relative block is replaced by
\* its music with absolute pitches, the rest of the document is kept.
RECURSIVE rel2abs(_)
rel2abs(node) ==
    IF node.kind = "Relative"
    THEN [ node.kids[2] EXCEPT !.kids = AbsoluteKids(@, 1, node.kids[1].pitch) ]
    ELSE [ node EXCEPT !.kids = [ i \in DOMAIN @ |-> rel2abs(@[i]) ] ]

Relative(reference, music) == Container("Relative", << Note(reference, NoDuration), music >>)

\* c g b, plain and with an octave mark, as written inside \relative.
RelativeLeaves ==
    { Note(Pitch(n, o, << 0, 1 >>), Quarter) : n \in { 0, 4, 6 }, o \in { 0, 1 } }

RelativeDocs ==
    { Root(<< Relative(ref, b) >>) : ref \in { MiddleC, Pitch(0, 0, << 0, 1 >>) },
                                     b \in Blocks(RelativeLeaves) }
    \cup { Root(<< Block(<< Note(MiddleC, Quarter) >>) >>), Root(<< Header >>) }

\* What rel2abs ends with: success, the two exceptions line 177 names, and
\* exceptions of other classes.
Rel2AbsOutcomes == { "ok", "ValueError", "RuntimeError", "IndexError", "AttributeError" }

PrepassInit ==
    /\ doc \in RelativeDocs
    /\ tempo_fallback = 120
    /\ ticks_per_beat \in TicksPerBeat
    /\ output_path \in OutputPaths
    /\ pc = "prepass"
    /\ Idle
    /\ AbcIdle
    /\ NoCaller
    /\ pitch_in = << >>
    /\ pitch_out = << >>

\* Lines 173-179: an exception of line 177 is swallowed and the document is
\* as it was, an edit being applied only when rel2abs ends normally; any
\* other exception leaves the function.
RelToAbs ==
    /\ pc = "prepass"
    /\ \E outcome \in Rel2AbsOutcomes :
          /\ prepass' = outcome
          /\ doc' = IF outcome = "ok" THEN rel2abs(doc) ELSE doc
          /\ IF outcome \in { "ok", "ValueError", "RuntimeError" }
             THEN pc' = "start" /\ raised' = raised
             ELSE pc' = "raised" /\ raised' = outcome
    /\ UNCHANGED << tempo_fallback, ticks_per_beat, output_path, music_node, track, events,
                    in_drum_mode, visits, warned, timeline, files, returned,
                    pitch_in, pitch_out, runs, parked, abc_vars >>

PrepassNext ==
    \/ RelToAbs
    \/ FindMusicNode
    \/ ExtractTempo
    \/ CollectEvents
    \/ AssembleTimeline
    \/ EmitMessages
    \/ SaveMidi
    \/ SaveFails

PrepassSpec == PrepassInit /\ [][PrepassNext]_vars

\* The track lilypond_to_midifile builds from a document as it stands.
TrackOf(document, fallback, tpb) ==
    << TrackName, SetTempo(bpm2tempo(_extract_tempo(document, fallback))) >>
    \o Emit(SortTimeline(Explode(read(_find_music_node(document), tpb).events, 1)), 1, 0)
    \o << EndOfTrack >>

(***************************************************************************)
(* C13.  When the relative-pitch pre-pass fails, whatever the exception,   *)
(* lilypond_to_midifile does not abort on it: no exception of the pre-pass *)
(* leaves the call, and the track it returns is the one the document with  *)
(* its original pitches gives.                                             *)
(***************************************************************************)
C13_PrepassFailureRecovered ==
    prepass \notin { "none", "ok" } =>
        /\ raised \in { "none", "OSError", "ValueError" }
        /\ raised = "ValueError" => _find_music_node(doc) = NoNode
        /\ Emitted => track = TrackOf(doc, tempo_fallback, ticks_per_beat)

(***************************************************************************)
(* src/rappa.py: ABCPlayer.parse_note, _parse_duration,                    *)
(* frequency_to_midi_note and save_to_midi.  A string is the sequence of   *)
(* its characters.  A frequency is a pair << h, k >> standing for          *)
(* h / 100 Hz times SEMITONE_RATIO to the power k: the table values have   *)
(* two decimals and an accidental multiplies or divides once.              *)
(***************************************************************************)
MaxToken == 3        \* longest token drawn freely from the characters
MaxNumber == 25      \* largest number written out as a duration modifier
MaxNotes == 3        \* most tokens of an ABC text

BASE_DURATION == 500

LETTERS == { "C", "D", "E", "F", "G", "A", "B", "c", "d", "e", "f", "g", "a", "b" }

NOTE_FREQUENCIES(name) ==
    CASE name = "C" -> 26163 [] name = "D" -> 29366 [] name = "E" -> 32963
      [] name = "F" -> 34923 [] name = "G" -> 39200 [] name = "A" -> 44000
      [] name = "B" -> 49388 [] name = "c" -> 52325 [] name = "d" -> 58733
      [] name = "e" -> 65925 [] name = "f" -> 69846 [] name = "g" -> 78399
      [] name = "a" -> 88000 [] name = "b" -> 98777

ACCIDENTALS == { "^", "_", "=" }
DIGITS == << "0", "1", "2", "3", "4", "5", "6", "7", "8", "9" >>
IsDigit(ch) == \E d \in DOMAIN DIGITS : DIGITS[d] = ch
DigitValue(ch) == (CHOOSE d \in DOMAIN DIGITS : DIGITS[d] = ch) - 1

\* int(s) accepts digits with single underscores between them (signs and
\* blanks, which it also accepts, are not among the characters drawn).
ValidInt(s) ==
    /\ Len(s) > 0
    /\ IsDigit(s[1]) /\ IsDigit(s[Len(s)])
    /\ \A i \in DOMAIN s : IsDigit(s[i]) \/ s[i] = "_"
    /\ \A i \in 1 .. Len(s) - 1 : ~(s[i] = "_" /\ s[i + 1] = "_")

RECURSIVE IntValue(_, _)
IntValue(s, i) ==
    IF i = 0 THEN 0
    ELSE IF s[i] = "_" THEN IntValue(s, i - 1)
    ELSE IntValue(s, i - 1) * 10 + DigitValue(s[i])

\* What a call gives: its value, or the exception it raises.
Returns(value) == [ value |-> value, error |-> "none" ]
Raises(error) == [ value |-> 0, error |-> error ]

\* Lines 214-234 with '/n' multiplying instead of dividing.
_parse_duration_multiplying(duration_str) ==
    IF duration_str = << >> THEN Returns(BASE_DURATION)
    ELSE LET digits == IF duration_str[1] = "/" THEN Tail(duration_str) ELSE duration_str
         IN  IF digits = << >> THEN Returns(BASE_DURATION * 2)
             ELSE IF ~ValidInt(digits) THEN Raises("ValueError")
             ELSE Returns(BASE_DURATION * IntValue(digits, Len(digits)))

\* Lines 214-234.
_parse_duration(duration_str) ==
    IF duration_str = << >> THEN Returns(BASE_DURATION)
    ELSE IF duration_str[1] = "/"
    THEN IF Len(duration_str) > 1
         THEN LET rest == Tail(duration_str)
              IN  IF ~ValidInt(rest) THEN Raises("ValueError")
                  ELSE IF IntValue(rest, Len(rest)) = 0 THEN Raises("ZeroDivisionError")
                  ELSE Returns(BASE_DURATION \div IntValue(rest, Len(rest)))
         ELSE Returns(BASE_DURATION \div 2)
    ELSE IF ~ValidInt(duration_str) THEN Raises("ValueError")
    ELSE Returns(BASE_DURATION * IntValue(duration_str, Len(duration_str)))

\* re.match(r'([\^_=]?)([A-Ga-g])([/\d]*)', note_str), line 192: the match
\* is anchored at the start of the string only.  The three groups, or << >>.
RECURSIVE DurationChars(_, _)
DurationChars(s, i) ==
    IF i <= Len(s) /\ (s[i] = "/" \/ IsDigit(s[i]))
    THEN << s[i] >> \o DurationChars(s, i + 1)
    ELSE << >>

note_match(text) ==
    LET a == IF Len(text) >= 1 /\ text[1] \in ACCIDENTALS THEN 1 ELSE 0
    IN  IF Len(text) > a /\ text[a + 1] \in LETTERS
        THEN << SubSeq(text, 1, a), text[a + 1], DurationChars(text, a + 2) >>
        ELSE << >>

\* Lines 199-207: the table frequency, raised or lowered by the accidental.
NoteFrequency(accidental, note_name) ==
    LET frequency == IF note_name \in LETTERS THEN NOTE_FREQUENCIES(note_name) ELSE 0
    IN  IF accidental = << "^" >> THEN << frequency, 1 >>
        ELSE IF accidental = << "_" >> THEN << frequency, -1 >>
        ELSE << frequency, 0 >>

\* Lines 175-212 with a token that matches nothing sounding as C.
parse_note_sounding(text) ==
    IF Len(text) >= 1 /\ text[1] = "z"
    THEN LET duration == _parse_duration(Tail(text))
         IN  IF duration.error # "none" THEN Raises(duration.error)
             ELSE Returns(<< << 0, 0 >>, duration.value >>)
    ELSE LET groups == note_match(text)
         IN  IF groups = << >> THEN Returns(<< NoteFrequency(<< >>, "C"), BASE_DURATION >>)
             ELSE LET duration == _parse_duration(groups[3])
                  IN  IF duration.error # "none" THEN Raises(duration.error)
                      ELSE Returns(<< NoteFrequency(groups[1], groups[2]), duration.value >>)

\* Lines 175-212: (frequency, duration), or the exception of _parse_duration.
parse_note(text) ==
    IF Len(text) >= 1 /\ text[1] = "z"
    THEN LET duration == _parse_duration(Tail(text))
         IN  IF duration.error # "none" THEN Raises(duration.error)
             ELSE Returns(<< << 0, 0 >>, duration.value >>)
    ELSE LET groups == note_match(text)
         IN  IF groups = << >> THEN Returns(<< << 0, 0 >>, BASE_DURATION >>)
             ELSE LET duration == _parse_duration(groups[3])
                  IN  IF duration.error # "none" THEN Raises(duration.error)
                      ELSE Returns(<< NoteFrequency(groups[1], groups[2]), duration.value >>)

\* The least frequency, in hundredths of a hertz, that
\* round(69 + 12 * log2(f / 440)) takes to n, for n = 1 .. 127.
SemitoneBounds ==
    << 842, 892, 945, 1001, 1061, 1124, 1191, 1261, 1336, 1416, 1500, 1589, 1684, 1784,
       1890, 2002, 2121, 2247, 2381, 2522, 2672, 2831, 2999, 3178, 3367, 3567, 3779, 4004,
       4242, 4494, 4761, 5044, 5344, 5662, 5998, 6355, 6733, 7133, 7557, 8007, 8483, 8987,
       9521, 10088, 10687, 11323, 11996, 12709, 13465, 14266, 15114, 16013, 16965, 17974,
       19042, 20175, 21374, 22645, 23992, 25418, 26930, 28531, 30227, 32025, 33929, 35947,
       38084, 40349, 42748, 45290, 47983, 50836, 53859, 57061, 60454, 64049, 67858, 71893,
       76168, 80697, 85495, 90579, 95965, 101672, 107717, 114122, 120908, 128098, 135715,
       143785, 152335, 161393, 170990, 181158, 191930, 203343, 215434, 228244, 241816,
       256195, 271430, 287570, 304669, 322786, 341980, 362315, 383859, 406685, 430867,
       456488, 483632, 512390, 542859, 575139, 609338, 645571, 683959, 724629, 767718,
       813369, 861734, 912976, 967264, 1024780, 1085717, 1150277, 1218676 >>

\* Lines 236-251.  The accidental's semitone moves the rounded number by
\* one, the table's frequencies lying within 0.01 of a whole semitone.
frequency_to_midi_note(frequency) ==
    IF frequency[1] = 0 THEN 0
    ELSE LET note_number ==
                 Cardinality({ n \in DOMAIN SemitoneBounds : SemitoneBounds[n] <= frequency[1] })
                 + frequency[2]
         IN  Max(0, Min(127, note_number))

\* Lines 291-294: int((duration / 1000.0) * 480 * (tempo / 60.0)); on the
\* durations and tempos drawn here the floating-point value and the exact
\* quotient have the same integer part.
abc_ticks(duration, bpm) ==
    LET abc_ticks_per_beat == 480
    IN  (duration * abc_ticks_per_beat * bpm) \div (1000 * 60)

\* The characters tokens are made of, and the tokens parse_note is given:
\* every string of up to MaxToken of a few characters, and every letter
\* with every accidental and a choice of duration modifiers.
Characters == { "^", "_", "=", "C", "g", "H", "z", "x", "/", "0", "1", "2", "5" }
Modifiers ==
    { << >>, << "2" >>, << "/" >>, << "/", "2" >>, << "1", "2" >>, << "/", "5" >>,
      << "/", "0" >>, << "2", "/" >> }
Tokens ==
    SeqsUpTo(Characters, MaxToken)
    \cup { acc \o << letter >> \o mod :
             acc \in { << >>, << "^" >>, << "_" >>, << "=" >> },
             letter \in LETTERS, mod \in Modifiers }

ParseInit ==
    /\ doc = Root(<< >>)
    /\ tempo_fallback = 120
    /\ ticks_per_beat = 480
    /\ output_path = NoPath
    /\ pc = "parse"
    /\ Idle
    /\ pitch_in = << >>
    /\ pitch_out = << >>
    /\ note_str \in Tokens
    /\ parsed = << >>
    /\ notes = << >>
    /\ tempo_bpm = 120
    /\ note_index = 0
    /\ NoCaller

lily_vars ==
    << doc, tempo_fallback, ticks_per_beat, music_node, events, in_drum_mode, visits,
       warned, timeline, returned, pitch_in, pitch_out >>

\* player.parse_note(note_str).
ApplyParseNote ==
    /\ pc = "parse"
    /\ LET result == parse_note(note_str)
       IN  IF result.error = "none"
           THEN parsed' = result.value /\ pc' = "parsed" /\ raised' = raised
           ELSE parsed' = parsed /\ pc' = "raised" /\ raised' = result.error
    /\ UNCHANGED << lily_vars, call_vars, output_path, track, files, note_str, notes,
                    tempo_bpm, note_index, play_vars >>

ParseNext == ApplyParseNote

ParseSpec == ParseInit /\ [][ParseNext]_vars

\* save_to_midi: the tokens of abc_notation.split() (line 281) and the tempo.
AbcTokens ==
    { << "C" >>, << "^", "c", "2" >>, << "=", "G", "/", "2" >>, << "z" >>, << "z", "2" >>,
      << "x" >>, << "^" >>, << "C", "/", "0" >> }
AbcTempos == { 120, 90 }

AbcInit ==
    /\ doc = Root(<< >>)
    /\ tempo_fallback = 120
    /\ ticks_per_beat = 480
    /\ Idle
    /\ pitch_in = << >>
    /\ pitch_out = << >>
    /\ note_str = << >>
    /\ parsed = << >>
    /\ notes \in SeqsUpTo(AbcTokens, MaxNotes)
    /\ note_index = 0
    /\ temp_path = "none"
    /\ \/ /\ caller = "none"
          /\ pc = "abc_open"
          /\ output_path = "out.mid"
          /\ tempo_bpm \in AbcTempos
          /\ save_midi = NoPath
       \/ /\ caller \in { "play", "main" }
          /\ pc = "play"
          /\ output_path = NoPath
          /\ tempo_bpm = 120
          /\ save_midi \in OutputPaths

\* The files left once an exception has gone through play: the finally
\* clause of line 343 removes the temporary file if play has made it.
AfterFinally == IF temp_path = "none" THEN files ELSE files \ { temp_path }

\* play, lines 329-333: save_to_midi is called with save_midi if one is given.
PlayBegin ==
    /\ pc = "play"
    /\ IF save_midi # NoPath
       THEN output_path' = save_midi /\ pc' = "abc_open"
       ELSE output_path' = output_path /\ pc' = "play_temp"
    /\ UNCHANGED << lily_vars, call_vars, track, raised, files, abc_vars >>

\* play, lines 336-340: the temporary file is made and save_to_midi called
\* with its path.
PlayTemp ==
    /\ pc = "play_temp"
    /\ temp_path' = TempPath
    /\ files' = files \cup { TempPath }
    /\ output_path' = TempPath
    /\ pc' = "abc_open"
    /\ UNCHANGED << lily_vars, call_vars, track, raised, note_str, parsed, notes,
                    tempo_bpm, note_index, caller, save_midi >>

\* Lines 272-281.
AbcOpen ==
    /\ pc = "abc_open"
    /\ track' = << TrackName, SetTempo(bpm2tempo(FInt(tempo_bpm))) >>
    /\ note_index' = 1
    /\ pc' = "abc_loop"
    /\ UNCHANGED << lily_vars, call_vars, output_path, raised, files, note_str, parsed,
                    notes, tempo_bpm, play_vars >>

\* Lines 287-314: one turn of the loop over notes.
AbcNote ==
    /\ pc = "abc_loop"
    /\ note_index <= Len(notes)
    /\ note_str' = notes[note_index]
    /\ LET result == parse_note(notes[note_index])
       IN  IF result.error # "none"
           THEN /\ raised' = result.error
                /\ pc' = "raised"
                /\ files' = AfterFinally
                /\ UNCHANGED << parsed, track, note_index >>
           ELSE LET frequency == result.value[1]
                    duration == result.value[2]
                    ticks == abc_ticks(duration, tempo_bpm)
                    midi_note == frequency_to_midi_note(frequency)
                IN  /\ parsed' = result.value
                    /\ track' = IF frequency[1] > 0
                                THEN track \o << Msg("note_on", midi_note, 0, 0, 0),
                                                 Msg("note_off", midi_note, 0, ticks, 0) >>
                                ELSE IF Len(track) > 0
                                THEN [ track EXCEPT ![Len(track)].time = @ + ticks ]
                                ELSE track
                    /\ note_index' = note_index + 1
                    /\ UNCHANGED << raised, pc, files >>
    /\ UNCHANGED << lily_vars, call_vars, output_path, notes, tempo_bpm, play_vars >>

\* Line 317, mid.save succeeding; save_to_midi returns, into play if play
\* called it: after line 333 or to line 341.
AbcSave ==
    /\ pc = "abc_loop"
    /\ note_index > Len(notes)
    /\ files' = files \cup { output_path }
    /\ pc' = IF caller = "none" THEN "abc_done"
             ELSE IF temp_path = "none" THEN "play_temp" ELSE "play_midi"
    /\ UNCHANGED << lily_vars, call_vars, output_path, track, raised, abc_vars >>

\* Line 317, mid.save raising.
AbcSaveFails ==
    /\ pc = "abc_loop"
    /\ note_index > Len(notes)
    /\ raised' = "OSError"
    /\ files' = AfterFinally
    /\ pc' = "raised"
    /\ UNCHANGED << lily_vars, call_vars, output_path, track, abc_vars >>

\* play, lines 341-343: play_midi returns and the temporary file is removed.
PlayMidi ==
    /\ pc = "play_midi"
    /\ files' = files \ { temp_path }
    /\ pc' = IF caller = "main" THEN "main_done" ELSE "play_done"
    /\ UNCHANGED << lily_vars, call_vars, output_path, track, raised, abc_vars >>

\* play, lines 341-343: play_midi does not return; the temporary file is
\* removed and the exception leaves play.
PlayMidiFails ==
    /\ pc = "play_midi"
    /\ raised' \in PlaybackFailures
    /\ files' = files \ { temp_path }
    /\ pc' = "raised"
    /\ UNCHANGED << lily_vars, call_vars, output_path, track, abc_vars >>

AbcNext ==
    \/ PlayBegin
    \/ PlayTemp
    \/ AbcOpen
    \/ AbcNote
    \/ AbcSave
    \/ AbcSaveFails
    \/ PlayMidi
    \/ PlayMidiFails
    \/ MainCatch

AbcSpec == AbcInit /\ [][AbcNext]_vars

(***************************************************************************)
(* What the claims about rappa.py speak of, read off the token itself.     *)
(***************************************************************************)
FrequencyTable ==
    { << "C", 26163 >>, << "D", 29366 >>, << "E", 32963 >>, << "F", 34923 >>,
      << "G", 39200 >>, << "A", 44000 >>, << "B", 49388 >>, << "c", 52325 >>,
      << "d", 58733 >>, << "e", 65925 >>, << "f", 69846 >>, << "g", 78399 >>,
      << "a", 88000 >>, << "b", 98777 >> }
TableFrequency(letter) == (CHOOSE row \in FrequencyTable : row[1] = letter)[2]

\* The semitones an accidental moves the table frequency by.
Shift(accidental) ==
    IF accidental = << "^" >> THEN 1 ELSE IF accidental = << "_" >> THEN -1 ELSE 0

\* What a token may begin with, and the frequency that beginning stands for.
Heads ==
    { [ text |-> acc \o << row[1] >>, frequency |-> << row[2], Shift(acc) >> ] :
        acc \in { << >>, << "^" >>, << "_" >>, << "=" >> }, row \in FrequencyTable }
    \cup { [ text |-> << "z" >>, frequency |-> << 0, 0 >> ] }

\* The decimal numeral of n.
RECURSIVE Decimal(_)
Decimal(n) ==
    IF n < 10 THEN << DIGITS[n + 1] >>
    ELSE Decimal(n \div 10) \o << DIGITS[(n % 10) + 1] >>

(***************************************************************************)
(* C14.  parse_note returns the duration 500 for a token without a         *)
(* duration modifier, 500 * n for a trailing integer n, 500 // n for a     *)
(* trailing '/n' (which for n = 0 is the ZeroDivisionError of 500 // 0)    *)
(* and 250 for a bare '/'; a token that starts with 'z' has frequency 0    *)
(* and what follows the 'z' as its modifier; a pitched token has the table *)
(* frequency of its letter, times the semitone ratio for '^', divided by   *)
(* it for '_', unchanged for '='.                                          *)
(***************************************************************************)
C14_ParseNoteValues ==
    pc \in { "parsed", "raised" } =>
        \A h \in { g \in Heads : /\ Len(g.text) <= Len(note_str)
                                 /\ SubSeq(note_str, 1, Len(g.text)) = g.text } :
            /\ note_str = h.text =>
                   pc = "parsed" /\ parsed = << h.frequency, 500 >>
            /\ note_str = h.text \o << "/" >> =>
                   pc = "parsed" /\ parsed = << h.frequency, 250 >>
            /\ \A n \in 0 .. MaxNumber :
                   note_str = h.text \o Decimal(n) =>
                       pc = "parsed" /\ parsed = << h.frequency, 500 * n >>
            /\ \A n \in 1 .. MaxNumber :
                   note_str = h.text \o << "/" >> \o Decimal(n) =>
                       pc = "parsed" /\ parsed = << h.frequency, 500 \div n >>
            /\ note_str = h.text \o << "/", "0" >> =>
                   pc = "raised" /\ raised = "ZeroDivisionError"

\* _b/5 has been parsed: b lowered by a semitone, a fifth of the base.
C14_Witness ==
    /\ pc = "parsed"
    /\ note_str = << "_", "b", "/", "5" >>
    /\ parsed = << << 98777, -1 >>, 100 >>

\* A token begins with a letter A-G or a-g, an accidental before it or not.
BeginsWithNote(token) ==
    /\ Len(token) >= 1
    /\ \/ token[1] \in LETTERS
       \/ token[1] \in ACCIDENTALS /\ Len(token) >= 2 /\ token[2] \in LETTERS
IsRestToken(token) == Len(token) >= 1 /\ token[1] = "z"
Malformed(token) == ~IsRestToken(token) /\ ~BeginsWithNote(token)

\* The tokens the loop of save_to_midi has been through.
TokensDone == SubSeq(notes, 1, note_index - 1)
\* save_to_midi is in its loop, or has returned with its track.
InAbcLoop ==
    \/ pc \in { "abc_loop", "abc_done", "play_midi", "play_done" }
    \/ pc = "play_temp" /\ save_midi # NoPath

(***************************************************************************)
(* C15.  A token that does not start with 'z' and does not begin with an   *)
(* optional accidental and a letter A-G or a-g is parsed as                *)
(* (0, BASE_DURATION), and save_to_midi emits no note for it: the track    *)
(* holds one note-on and one note-off per token that begins with a note.   *)
(***************************************************************************)
C15_MalformedTokenIsRest ==
    InAbcLoop =>
        /\ (note_index > 1 /\ Malformed(note_str)) => parsed = << << 0, 0 >>, 500 >>
        /\ Len(SelectSeq(track, IsNoteOn)) = Len(SelectSeq(TokensDone, BeginsWithNote))
        /\ Len(SelectSeq(track, IsNoteOff)) = Len(SelectSeq(TokensDone, BeginsWithNote))

\* A note and then two malformed tokens have been saved: one note sounds.
C15_Witness ==
    /\ pc = "abc_done"
    /\ Len(notes) = 3
    /\ BeginsWithNote(notes[1]) /\ Malformed(notes[2]) /\ Malformed(notes[3])
    /\ notes[2] # notes[3]
    /\ Len(SelectSeq(track, IsNoteOn)) = 1
    /\ parsed = << << 0, 0 >>, 500 >>

(***************************************************************************)
(* C16.  parse_note returns a (frequency, duration) pair for every token   *)
(* without blanks, whatever its accidental, letter and modifier            *)
(* characters, and never raises.                                           *)
(***************************************************************************)
C16_ParseNoteNeverRaises ==
    pc \in { "parsed", "raised" } => (pc = "parsed" /\ raised = "none" /\ Len(parsed) = 2)

\* The positions in a sequence of the elements that pass a test, in order.
RECURSIVE NoteOnPositions(_, _)
NoteOnPositions(msgs, i) ==
    IF i > Len(msgs) THEN << >>
    ELSE (IF IsNoteOn(msgs[i]) THEN << i >> ELSE << >>) \o NoteOnPositions(msgs, i + 1)

RECURSIVE NotePositions(_, _)
NotePositions(tokens, i) ==
    IF i > Len(tokens) THEN << >>
    ELSE (IF BeginsWithNote(tokens[i]) THEN << i >> ELSE << >>) \o NotePositions(tokens, i + 1)

\* The ticks of a token's own duration, and of all tokens before token i.
TokenTicks(token) == abc_ticks(parse_note(token).value[2], tempo_bpm)
RECURSIVE TicksBefore(_, _)
TicksBefore(tokens, i) ==
    IF i <= 1 THEN 0 ELSE TicksBefore(tokens, i - 1) + TokenTicks(tokens[i - 1])

(***************************************************************************)
(* C18.  In the track save_to_midi writes a rest only advances time: the   *)
(* note-off of every pitched token comes exactly the ticks of the token's  *)
(* own duration after its note-on, rests before or after it or not; the    *)
(* note-on of a token comes at the summed ticks of the tokens before it,   *)
(* rests included; and the tempo meta message stays at time 0.             *)
(***************************************************************************)
C18_RestOnlyAdvancesTime ==
    InAbcLoop =>
        LET done == TokensDone
            sounding == NotePositions(done, 1)
            ons == NoteOnPositions(track, 1)
        IN  /\ track[1].time = 0
            /\ track[2].time = 0
            /\ Len(ons) = Len(sounding)
            /\ \A j \in DOMAIN ons :
                  /\ IsNoteOff(track[ons[j] + 1])
                  /\ track[ons[j] + 1].time = TokenTicks(done[sounding[j]])
                  /\ AbsoluteTick(track, ons[j]) = TicksBefore(done, sounding[j])

\* How many messages of the track are of a type, note and channel and come
\* at an absolute tick; how many events with a note start (or end) there.
MessagesAt(body, type, note, channel, tick) ==
    Cardinality({ i \in DOMAIN body :
                    /\ body[i].type = type /\ body[i].note = note
                    /\ body[i].channel = channel /\ AbsoluteTick(body, i) = tick })
EventsStartingAt(note, channel, tick) ==
    Cardinality({ k \in DOMAIN events :
                    /\ events[k].note = note /\ events[k].channel = channel
                    /\ events[k].start = tick })
EventsEndingAt(note, channel, tick) ==
    Cardinality({ k \in DOMAIN events :
                    /\ events[k].note = note /\ events[k].channel = channel
                    /\ events[k].start + events[k].duration = tick })

(***************************************************************************)
(* C17.  The track holds, for every TimedEvent with a note, exactly one    *)
(* note-on at tick start and one note-off at tick start + duration with    *)
(* the event's note and channel, and no note message besides (none for an  *)
(* event without a note).  In every prefix of the track the note-offs of a *)
(* note and channel are at most as many as its note-ons, and over the      *)
(* whole track they are as many.                                           *)
(***************************************************************************)
C17_NoteOnOffPaired ==
    Emitted =>
        LET body == NoteMessages
            sounding == SelectSeq(events, HasNote)
            ticks == { AbsoluteTick(body, i) : i \in DOMAIN body }
                     \cup { sounding[k].start : k \in DOMAIN sounding }
                     \cup { sounding[k].start + sounding[k].duration : k \in DOMAIN sounding }
            voices == { << body[i].note, body[i].channel >> : i \in DOMAIN body }
                      \cup { << sounding[k].note, sounding[k].channel >> : k \in DOMAIN sounding }
            Count(type, voice, upto) ==
                Cardinality({ i \in 1 .. upto : /\ body[i].type = type
                                                /\ body[i].note = voice[1]
                                                /\ body[i].channel = voice[2] })
        IN  /\ Len(body) = 2 * Len(sounding)
            /\ \A i \in DOMAIN body :
                  body[i].type \in { "note_on", "note_off" } /\ body[i].note # NoNote
            /\ \A v \in voices, t \in ticks :
                  /\ MessagesAt(body, "note_on", v[1], v[2], t) = EventsStartingAt(v[1], v[2], t)
                  /\ MessagesAt(body, "note_off", v[1], v[2], t) = EventsEndingAt(v[1], v[2], t)
            /\ \A v \in voices :
                  /\ \A upto \in 0 .. Len(body) :
                        Count("note_off", v, upto) <= Count("note_on", v, upto)
                  /\ Count("note_off", v, Len(body)) = Count("note_on", v, Len(body))

\* Two notes that start together and an event without a note have been
\* collected: four note messages, the two note-ons before the two note-offs.
C17_Witness ==
    /\ Emitted
    /\ \E i, j \in DOMAIN events :
          /\ i # j /\ HasNote(events[i]) /\ HasNote(events[j])
          /\ events[i].start = events[j].start
    /\ \E k \in DOMAIN events : ~HasNote(events[k])
    /\ Len(NoteMessages) = 4
    /\ IsNoteOn(NoteMessages[2]) /\ IsNoteOff(NoteMessages[3])

(***************************************************************************)
(* C19.  Of two consecutive leaf items of a sequential context the earlier *)
(* event ends (start + duration, rounded and floored at one tick) no later *)
(* than the later event starts, whatever the durations, the scaling and    *)
(* the resolution: the earlier OFF is ordered before the later ON.         *)
(***************************************************************************)
C19_ConsecutiveDoNotOverlap ==
    (Collected /\ Sequential) =>
        LET expected == Expected
        IN  \A i, j \in DOMAIN events :
                (Len(expected) = Len(events) /\ expected[j].leaf = expected[i].leaf + 1) =>
                    events[i].start + events[i].duration <= events[j].start

====
